---------------------------- MODULE Spec2Model ----------------------------
(***************************************************************************)
(* A model of pygeohash: the geohash codec (encode, decode_exactly,        *)
(* decode), the bounding-box helpers built on it and the neighbour         *)
(* resolver (get_adjacent).                                                *)
(*                                                                         *)
(* Representation of numbers.  Every interval bound, midpoint and error    *)
(* the codec computes is a dyadic multiple of 45 degrees, which a double   *)
(* holds exactly, so the model keeps it as an integer count of             *)
(* 45/2^FracBits degrees ("grid units").  A coordinate passed to encode    *)
(* is a rational number of grid units, so that decimal degrees (42.6, or   *)
(* the rounded output of decode) are compared exactly.  The grid resolves  *)
(* encode up to its default precision of 12 characters and decode_exactly  *)
(* of geohashes of up to 11 characters.                                    *)
(*                                                                         *)
(* A string is a sequence of one-character strings.                        *)
(***************************************************************************)
EXTENDS Integers, Sequences, FiniteSets, TLC

VARIABLES
    pc,          \* position of the calling script
    args,        \* encode's arguments [latitude, longitude, precision]
    gh,          \* the geohash string: encode's result / decode's argument
    exact,       \* ExactLatLong returned by decode_exactly(gh)
    box,         \* BoundingBox returned by get_bounding_box(gh)
    inside,      \* result of is_point_in_geohash(latitude, longitude, gh)
    decoded,     \* LatLong returned by decode(gh)
    reencoded,   \* encode(decoded.latitude, decoded.longitude, precision)
    redecoded,   \* decode(reencoded)
    longer,      \* [geohash, exact]: gh + c and decode_exactly(gh + c)
    adjacent,    \* [direction, result, exact]: get_adjacent(gh, direction) and
                 \* decode_exactly of the string it returned
    back,        \* [direction, result]: get_adjacent(adjacent.result, direction)
    returned,    \* the outcome of each further call made so far, by function name
    tables,      \* the module-level tables: __base32, __decodemap, NEIGHBORS, BORDERS
    threads      \* per thread: the call it makes, the call's locals, its outcome

vars == <<pc, args, gh, exact, box, inside, decoded, reencoded, redecoded,
          longer, adjacent, back, returned, tables, threads>>

\* The value of a variable no call has assigned yet.
None == "None"

-----------------------------------------------------------------------------
(* Constants of the program *)

\* def encode(latitude, longitude, precision=12)
DefaultPrecision == 12

-----------------------------------------------------------------------------
(* Bounds of the model *)

\* Largest precision passed to encode.
MaxPrecision == 5
\* Binary digits kept below 45 degrees by the grid: encode at the default
\* precision halves the latitude interval (5 * DefaultPrecision) \div 2 times,
\* and the last of these midpoints is a whole number of grid units.
FracBits == (5 * DefaultPrecision) \div 2 - 2
\* The dyadic sample of each axis has 2*DyadicSteps+1 points.
DyadicSteps == 8
\* Spacing, in tenths of a degree, of the decimal sample of each axis.
LatStepTenths == 113
LonStepTenths == 227
\* Every geohash of at most MaxLen characters is an input of the geohash scripts.
MaxLen == 2
\* Every upper/lower-case spelling of at most MaxSpelledLen characters is one too.
MaxSpelledLen == 1

-----------------------------------------------------------------------------
(* Numbers *)

RECURSIVE Pow(_, _)
Pow(b, e) == IF e = 0 THEN 1 ELSE b * Pow(b, e - 1)

Abs(x) == IF x < 0 THEN -x ELSE x

\* Grid units of a whole number of degrees that is a multiple of 45.
Deg(d) == (d \div 45) * Pow(2, FracBits)

\* A coordinate is the rational number num * mul / den of grid units.
\* A coordinate lying on the grid:
Dyadic(k) == [num |-> k, mul |-> 1, den |-> 1]
\* The coordinate m/10^digits degrees: m * 2^FracBits / (45 * 10^digits) grid
\* units, with the common factor 2^digits taken out.
Decimal(m, digits) ==
    [num |-> m, mul |-> Pow(2, FracBits - digits), den |-> 45 * Pow(5, digits)]
\* The coordinate t/10 degrees.
Tenths(t) == Decimal(t, 1)

\* x * c = q * y + r with 0 <= r < y, for c, y > 0.  The product is formed one
\* factor of c at a time on the quotient and the remainder, so that no
\* intermediate value leaves the 32-bit range.
Factor(c) ==
    IF c % 64 = 0 THEN 64 ELSE IF c % 5 = 0 THEN 5 ELSE IF c % 3 = 0 THEN 3
    ELSE IF c % 2 = 0 THEN 2 ELSE c
RECURSIVE MulDiv(_, _, _)
MulDiv(x, c, y) ==
    IF c = 1 THEN [q |-> x \div y, r |-> x % y]
    ELSE LET f == Factor(c)
             p == MulDiv(x, c \div f, y)
         IN  [q |-> p.q * f + (p.r * f) \div y, r |-> (p.r * f) % y]

\* The largest grid value that is <= num * mul / den.
FloorOf(num, mul, den) == MulDiv(num, mul, den).q

\* value >= mid, for a coordinate and a grid value mid: floor(value) >= mid.
GE(value, mid) == FloorOf(value.num, value.mul, value.den) >= mid
\* value <= bound: ceiling(value) <= bound.
LE(value, bound) == -FloorOf(-value.num, value.mul, value.den) <= bound

-----------------------------------------------------------------------------
(* The alphabet *)

base32 == << "0", "1", "2", "3", "4", "5", "6", "7", "8", "9", "b", "c", "d",
             "e", "f", "g", "h", "j", "k", "m", "n", "p", "q", "r", "s", "t",
             "u", "v", "w", "x", "y", "z" >>

Alphabet == { base32[i] : i \in 1..Len(base32) }

\* {base32_char: i for i, base32_char in enumerate(__base32)}
decodemap == [c \in Alphabet |-> (CHOOSE i \in 1..Len(base32) : base32[i] = c) - 1]

\* The list [16, 8, 4, 2, 1] of encode and decode_exactly.
bits == << 16, 8, 4, 2, 1 >>

\* cd & mask, for a one-bit mask
BitAnd(cd, mask) == IF (cd \div mask) % 2 = 1 THEN mask ELSE 0
\* ch | mask, for a one-bit mask
BitOr(ch, mask) == IF (ch \div mask) % 2 = 1 THEN ch ELSE ch + mask

\* (a + b) / 2 on dyadic values
Mid(a, b) == (a + b) \div 2

-----------------------------------------------------------------------------
(* encode *)

\* Mutant of encode_init: the first bit is a latitude decision.
encode_init_latitude_first ==
    [ lat_interval |-> << -Deg(90), Deg(90) >>,
      lon_interval |-> << -Deg(180), Deg(180) >>,
      geohash |-> << >>, bit |-> 0, ch |-> 0, even |-> FALSE ]

\* The locals of encode before its loop.
encode_init ==
    [ lat_interval |-> << -Deg(90), Deg(90) >>,
      lon_interval |-> << -Deg(180), Deg(180) >>,
      geohash |-> << >>, bit |-> 0, ch |-> 0, even |-> TRUE ]

\* Mutant of encode_upper: value > mid.
encode_upper_exclusive(value, mid) == ~LE(value, mid)

\* value >= mid, the comparison of the loop body.
encode_upper(value, mid) == GE(value, mid)

\* Mutant of encode_pass: geohash = __base32[ch] + geohash.
encode_pass_prepending(alphabet, latitude, longitude, s) ==
    LET axis == IF s.even THEN s.lon_interval ELSE s.lat_interval
        value == IF s.even THEN longitude ELSE latitude
        mid == Mid(axis[1], axis[2])
        up == GE(value, mid)
        narrowed == IF up THEN << mid, axis[2] >> ELSE << axis[1], mid >>
        ch1 == IF up THEN BitOr(s.ch, bits[s.bit + 1]) ELSE s.ch
    IN  [ lat_interval |-> IF s.even THEN s.lat_interval ELSE narrowed,
          lon_interval |-> IF s.even THEN narrowed ELSE s.lon_interval,
          even |-> ~s.even,
          bit |-> IF s.bit < 4 THEN s.bit + 1 ELSE 0,
          ch |-> IF s.bit < 4 THEN ch1 ELSE 0,
          geohash |-> IF s.bit < 4 THEN s.geohash
                      ELSE << alphabet[ch1 + 1] >> \o s.geohash ]

\* One pass through the body of encode's while loop, reading the alphabet
\* from the module-level object passed in.
encode_pass(alphabet, latitude, longitude, s) ==
    LET axis == IF s.even THEN s.lon_interval ELSE s.lat_interval
        value == IF s.even THEN longitude ELSE latitude
        mid == Mid(axis[1], axis[2])
        up == encode_upper(value, mid)
        narrowed == IF up THEN << mid, axis[2] >> ELSE << axis[1], mid >>
        ch1 == IF up THEN BitOr(s.ch, bits[s.bit + 1]) ELSE s.ch
    IN  [ lat_interval |-> IF s.even THEN s.lat_interval ELSE narrowed,
          lon_interval |-> IF s.even THEN narrowed ELSE s.lon_interval,
          even |-> ~s.even,
          bit |-> IF s.bit < 4 THEN s.bit + 1 ELSE 0,
          ch |-> IF s.bit < 4 THEN ch1 ELSE 0,
          geohash |-> IF s.bit < 4 THEN s.geohash
                      ELSE Append(s.geohash, alphabet[ch1 + 1]) ]

\* The loop body as encode runs it: the alphabet is __base32.
encode_body(latitude, longitude, s) == encode_pass(base32, latitude, longitude, s)

\* Mutant of encode_loop: the loop test is len(geohash) <= precision.
RECURSIVE encode_loop_one_more(_, _, _, _)
encode_loop_one_more(latitude, longitude, p, s) ==
    IF Len(s.geohash) <= p
    THEN encode_loop_one_more(latitude, longitude, p, encode_body(latitude, longitude, s))
    ELSE s.geohash

RECURSIVE encode_loop(_, _, _, _)
encode_loop(latitude, longitude, p, s) ==
    IF Len(s.geohash) < p
    THEN encode_loop(latitude, longitude, p, encode_body(latitude, longitude, s))
    ELSE s.geohash

encode(latitude, longitude, p) == encode_loop(latitude, longitude, p, encode_init)

(* encode_strictly *)

\* The locals of encode_strictly before its loop.
encode_strictly_init ==
    [ lat_interval |-> << -Deg(90), Deg(90) >>,
      lon_interval |-> << -Deg(180), Deg(180) >>,
      geohash |-> << >>, bit |-> 0, ch |-> 0, even |-> TRUE ]

\* Mutant of encode_strictly_upper: value > mid.
encode_strictly_upper_exclusive(value, mid) == ~LE(value, mid)

\* value >= mid, the comparison of encode_strictly's loop body.
encode_strictly_upper(value, mid) == GE(value, mid)

\* One pass through the body of encode_strictly's while loop.
encode_strictly_body(latitude, longitude, s) ==
    LET axis == IF s.even THEN s.lon_interval ELSE s.lat_interval
        value == IF s.even THEN longitude ELSE latitude
        mid == Mid(axis[1], axis[2])
        up == encode_strictly_upper(value, mid)
        narrowed == IF up THEN << mid, axis[2] >> ELSE << axis[1], mid >>
        ch1 == IF up THEN BitOr(s.ch, bits[s.bit + 1]) ELSE s.ch
    IN  [ lat_interval |-> IF s.even THEN s.lat_interval ELSE narrowed,
          lon_interval |-> IF s.even THEN narrowed ELSE s.lon_interval,
          even |-> ~s.even,
          bit |-> IF s.bit < 4 THEN s.bit + 1 ELSE 0,
          ch |-> IF s.bit < 4 THEN ch1 ELSE 0,
          geohash |-> IF s.bit < 4 THEN s.geohash
                      ELSE Append(s.geohash, base32[ch1 + 1]) ]

RECURSIVE encode_strictly_loop(_, _, _, _)
encode_strictly_loop(latitude, longitude, p, s) ==
    IF Len(s.geohash) < p
    THEN encode_strictly_loop(latitude, longitude, p,
                              encode_strictly_body(latitude, longitude, s))
    ELSE s.geohash

encode_strictly(latitude, longitude, p) ==
    encode_strictly_loop(latitude, longitude, p, encode_strictly_init)

(* nbgeohash: nb_point_encode, nb_vector_encode *)

\* value > mid, the comparison of nb_point_encode's loop body.
nb_upper(value, mid) == ~LE(value, mid)

\* The locals of nb_point_encode before its loop; geohash is the array
\* np.zeros(precision, dtype="<U1"), of empty strings.
nb_point_encode_init(p) ==
    [ lat_interval_neg |-> -Deg(90), lat_interval_pos |-> Deg(90),
      lon_interval_neg |-> -Deg(180), lon_interval_pos |-> Deg(180),
      geohash |-> [i \in 1..p |-> << >>], bit |-> 0, ch |-> 0, n |-> 0, even |-> TRUE ]

\* One pass through the body of nb_point_encode's while loop.
nb_point_encode_body(latitude, longitude, s) ==
    LET mid == IF s.even THEN Mid(s.lon_interval_neg, s.lon_interval_pos)
                         ELSE Mid(s.lat_interval_neg, s.lat_interval_pos)
        up == nb_upper(IF s.even THEN longitude ELSE latitude, mid)
        ch1 == IF up THEN BitOr(s.ch, bits[s.bit + 1]) ELSE s.ch
    IN  [ lat_interval_neg |-> IF ~s.even /\ up THEN mid ELSE s.lat_interval_neg,
          lat_interval_pos |-> IF ~s.even /\ ~up THEN mid ELSE s.lat_interval_pos,
          lon_interval_neg |-> IF s.even /\ up THEN mid ELSE s.lon_interval_neg,
          lon_interval_pos |-> IF s.even /\ ~up THEN mid ELSE s.lon_interval_pos,
          even |-> ~s.even,
          bit |-> IF s.bit < 4 THEN s.bit + 1 ELSE 0,
          ch |-> IF s.bit < 4 THEN ch1 ELSE 0,
          n |-> IF s.bit < 4 THEN s.n ELSE s.n + 1,
          geohash |-> IF s.bit < 4 THEN s.geohash
                      ELSE [s.geohash EXCEPT ![s.n + 1] = << base32[ch1 + 1] >>] ]

\* "".join(geohash)
RECURSIVE join(_)
join(strings) == IF strings = << >> THEN << >> ELSE Head(strings) \o join(Tail(strings))

RECURSIVE nb_point_encode_loop(_, _, _, _)
nb_point_encode_loop(latitude, longitude, p, s) ==
    IF s.n < p
    THEN nb_point_encode_loop(latitude, longitude, p,
                              nb_point_encode_body(latitude, longitude, s))
    ELSE join(s.geohash)

nb_point_encode(latitude, longitude, p) ==
    nb_point_encode_loop(latitude, longitude, p, nb_point_encode_init(p))

\* The item size of the result array of nb_vector_encode (dtype="<U12").
VectorItemSize == 12

\* geohashes[i] = nb_point_encode(latitudes[i], longitudes[i], precision), each
\* string cut to the item size of the array.
nb_vector_encode(latitudes, longitudes, p) ==
    [ i \in 1..Len(latitudes) |->
        LET g == nb_point_encode(latitudes[i], longitudes[i], p)
        IN  SubSeq(g, 1, IF Len(g) < VectorItemSize THEN Len(g) ELSE VectorItemSize) ]

-----------------------------------------------------------------------------
(* decode_exactly *)

\* An exception leaving a call, and the test for it.
Raise(e) == [raised |-> e]
Raised(r) == "raised" \in DOMAIN r

\* __decodemap[c] for a c that is no key of the map.
KeyError == "KeyError"

\* Mutant of decode_init: the first bit is taken as a latitude bit.
decode_init_latitude_first ==
    [ lat_interval |-> << -Deg(90), Deg(90) >>,
      lon_interval |-> << -Deg(180), Deg(180) >>,
      lat_err |-> Deg(90), lon_err |-> Deg(180), is_even |-> FALSE ]

\* The locals of decode_exactly before its loops.
decode_init ==
    [ lat_interval |-> << -Deg(90), Deg(90) >>,
      lon_interval |-> << -Deg(180), Deg(180) >>,
      lat_err |-> Deg(90), lon_err |-> Deg(180), is_even |-> TRUE ]

\* Mutant of decode_bit: a latitude bit narrows the interval but leaves
\* lat_err as it was.
decode_bit_lat_err_kept(cd, mask, s) ==
    LET axis == IF s.is_even THEN s.lon_interval ELSE s.lat_interval
        mid == Mid(axis[1], axis[2])
        narrowed == IF BitAnd(cd, mask) # 0 THEN << mid, axis[2] >>
                                            ELSE << axis[1], mid >>
    IN  [ lat_interval |-> IF s.is_even THEN s.lat_interval ELSE narrowed,
          lon_interval |-> IF s.is_even THEN narrowed ELSE s.lon_interval,
          lat_err |-> s.lat_err,
          lon_err |-> IF s.is_even THEN s.lon_err \div 2 ELSE s.lon_err,
          is_even |-> ~s.is_even ]

\* The body of "for mask in [16, 8, 4, 2, 1]" for one mask.
decode_bit(cd, mask, s) ==
    LET axis == IF s.is_even THEN s.lon_interval ELSE s.lat_interval
        mid == Mid(axis[1], axis[2])
        narrowed == IF BitAnd(cd, mask) # 0 THEN << mid, axis[2] >>
                                            ELSE << axis[1], mid >>
    IN  [ lat_interval |-> IF s.is_even THEN s.lat_interval ELSE narrowed,
          lon_interval |-> IF s.is_even THEN narrowed ELSE s.lon_interval,
          lat_err |-> IF s.is_even THEN s.lat_err ELSE s.lat_err \div 2,
          lon_err |-> IF s.is_even THEN s.lon_err \div 2 ELSE s.lon_err,
          is_even |-> ~s.is_even ]

\* Mutant of decode_masks: the masks are applied least significant bit first.
RECURSIVE decode_masks_lsb_first(_, _, _)
decode_masks_lsb_first(cd, i, s) ==
    IF i > Len(bits) THEN s
    ELSE decode_masks_lsb_first(cd, i + 1, decode_bit(cd, bits[Len(bits) + 1 - i], s))

RECURSIVE decode_masks(_, _, _)
decode_masks(cd, i, s) ==
    IF i > Len(bits) THEN s ELSE decode_masks(cd, i + 1, decode_bit(cd, bits[i], s))

\* "for c in geohash", from the i-th character on; a KeyError ends the loop.
RECURSIVE decode_chars(_, _, _)
decode_chars(geohash, i, s) ==
    IF Raised(s) \/ i > Len(geohash) THEN s
    ELSE IF geohash[i] \notin DOMAIN decodemap THEN Raise(KeyError)
    ELSE decode_chars(geohash, i + 1, decode_masks(decodemap[geohash[i]], 1, s))

\* Mutant of decode_exactly_return: the lower ends of the intervals are returned.
decode_exactly_return_lower_ends(s) ==
    [ latitude |-> s.lat_interval[1],
      longitude |-> s.lon_interval[1],
      latitude_error |-> s.lat_err,
      longitude_error |-> s.lon_err ]

\* The ExactLatLong decode_exactly returns from the locals s after its loops.
decode_exactly_return(s) ==
    [ latitude |-> Mid(s.lat_interval[1], s.lat_interval[2]),
      longitude |-> Mid(s.lon_interval[1], s.lon_interval[2]),
      latitude_error |-> s.lat_err,
      longitude_error |-> s.lon_err ]

decode_exactly(geohash) ==
    LET s == decode_chars(geohash, 1, decode_init)
    IN  IF Raised(s) THEN s ELSE decode_exactly_return(s)

-----------------------------------------------------------------------------
(* decode *)

\* The error err (grid units) in degrees, as the fraction err_num / err_den.
err_num(err) == IF err >= Pow(2, FracBits) THEN 45 * (err \div Pow(2, FracBits)) ELSE 45
err_den(err) == IF err >= Pow(2, FracBits) THEN 1 ELSE Pow(2, FracBits) \div err

\* a/b < c/d (a, c >= 0 and b, d > 0), by comparing the whole parts and then
\* the reciprocals of the fractional parts, so that no product is formed.
RECURSIVE FracLess(_, _, _, _)
FracLess(a, b, c, d) ==
    IF a \div b # c \div d THEN a \div b < c \div d
    ELSE IF c % d = 0 THEN FALSE
    ELSE IF a % b = 0 THEN TRUE
    ELSE FracLess(d, c % d, b, a % b)

\* (n/d)^2 * 10 > 1, that is d/n < 10 * n / d.
ExceedsRoot(n, d) == FracLess(d, n, 10 * n, d)

\* max(1, int(round(-log10(err)))): the least r >= 1 with -log10(err) < r + 1/2,
\* that is with (err * 10^r)^2 * 10 > 1.
\* (n/d is err * 10^r; a factor 10 is applied as 5/(1/2) while d is even.)
RECURSIVE known_decimals_from(_, _, _)
known_decimals_from(n, d, r) ==
    IF ExceedsRoot(n, d) THEN r
    ELSE IF d % 2 = 0 THEN known_decimals_from(n * 5, d \div 2, r + 1)
    ELSE known_decimals_from(n * 10, d, r + 1)

known_decimals(err) == known_decimals_from(err_num(err) * 10, err_den(err), 1)

\* Mutant of RoundHalfEven: the digits after the last kept one are cut off.
RoundTowardsFloor(x, c, y) == MulDiv(x, c, y).q

\* x * c / y rounded to the nearest integer, ties to even (c, y > 0).
RoundHalfEven(x, c, y) ==
    LET whole == MulDiv(x, c, y).q
        r == MulDiv(x, c, y).r
    IN  IF 2 * r < y THEN whole
        ELSE IF 2 * r > y THEN whole + 1
        ELSE IF whole % 2 = 0 THEN whole ELSE whole + 1

\* "%.*f" % (digits, value): the decimal string, kept as the integer m of
\* m / 10^digits.
format_f(digits, value) ==
    [ m |-> RoundHalfEven(value, 45 * Pow(5, digits), Pow(2, FracBits - digits)),
      digits |-> digits ]

\* if "." in s: s = s.rstrip("0")
RECURSIVE rstrip_zeros(_)
rstrip_zeros(s) ==
    IF s.digits > 0 /\ s.m % 10 = 0
    THEN rstrip_zeros([m |-> s.m \div 10, digits |-> s.digits - 1])
    ELSE s

\* float(s), as a coordinate
float(s) == Decimal(s.m, s.digits)

\* The LatLong decode makes of the ExactLatLong e.
decode_format(e) ==
    [ latitude |->
        rstrip_zeros(format_f(known_decimals(e.latitude_error) - 1, e.latitude)),
      longitude |->
        rstrip_zeros(format_f(known_decimals(e.longitude_error) - 1, e.longitude)) ]

decode(geohash) ==
    LET e == decode_exactly(geohash)
    IN  IF Raised(e) THEN e ELSE decode_format(e)

-----------------------------------------------------------------------------
(* bounding_box *)

\* Mutant of get_bounding_box: the two error margins are exchanged.
get_bounding_box_swapped_errors(geohash) ==
    LET e == decode_exactly(geohash)
    IN  IF Raised(e) THEN e
        ELSE [ min_lat |-> e.latitude - e.longitude_error,
               min_lon |-> e.longitude - e.latitude_error,
               max_lat |-> e.latitude + e.longitude_error,
               max_lon |-> e.longitude + e.latitude_error ]

get_bounding_box(geohash) ==
    LET e == decode_exactly(geohash)
    IN  IF Raised(e) THEN e
        ELSE [ min_lat |-> e.latitude - e.latitude_error,
               min_lon |-> e.longitude - e.longitude_error,
               max_lat |-> e.latitude + e.latitude_error,
               max_lon |-> e.longitude + e.longitude_error ]

is_point_in_box(lat, lon, bbox) ==
    /\ GE(lat, bbox.min_lat) /\ LE(lat, bbox.max_lat)
    /\ GE(lon, bbox.min_lon) /\ LE(lon, bbox.max_lon)

is_point_in_geohash(lat, lon, geohash) ==
    is_point_in_box(lat, lon, get_bounding_box(geohash))

\* not (bbox1.max_lat < bbox2.min_lat or ... or bbox1.min_lon > bbox2.max_lon)
do_boxes_intersect(bbox1, bbox2) ==
    ~ \/ bbox1.max_lat < bbox2.min_lat
      \/ bbox1.min_lat > bbox2.max_lat
      \/ bbox1.max_lon < bbox2.min_lon
      \/ bbox1.min_lon > bbox2.max_lon

\* _float_range(start, stop, step): start, start + step, ... while <= stop.
RECURSIVE float_range(_, _, _)
float_range(start, stop, step) ==
    IF start <= stop THEN << start >> \o float_range(start + step, stop, step) ELSE << >>

\* The values of a list.
Values(list) == { list[i] : i \in 1..Len(list) }

\* 180.0 / (2 ** (5 * precision / 2)) and 360.0 / (2 ** (5 * precision / 2)),
\* for an even precision, where the power is a whole power of two.
lat_step(precision) == Deg(180) \div Pow(2, (5 * precision) \div 2)
lon_step(precision) == 2 * (Deg(180) \div Pow(2, (5 * precision) \div 2))

\* The points sampled along an edge: for x in _float_range(start, stop, step).
edge_samples(start, stop, step) == Values(float_range(start, stop, step))

\* geohashes_in_box(bbox, precision), for a box whose corners are dyadic and an
\* even precision; the result list is kept as the set it is made from.
geohashes_in_box(bbox, precision) ==
    LET lons == edge_samples(bbox.min_lon, bbox.max_lon, lon_step(precision))
        lats == edge_samples(bbox.min_lat, bbox.max_lat, lat_step(precision))
        top_bottom ==
            UNION { { encode(Dyadic(bbox.min_lat), Dyadic(lon), precision),
                      encode(Dyadic(bbox.max_lat), Dyadic(lon), precision) } : lon \in lons }
        left_right ==
            UNION { { encode(Dyadic(lat), Dyadic(bbox.min_lon), precision),
                      encode(Dyadic(lat), Dyadic(bbox.max_lon), precision) } : lat \in lats }
        interior_lat_step == lat_step(precision) \div 2
        interior_lon_step == lon_step(precision) \div 2
        lat_range == bbox.max_lat - bbox.min_lat
        lon_range == bbox.max_lon - bbox.min_lon
        interior ==
            IF lat_range > interior_lat_step * 3 /\ lon_range > interior_lon_step * 3
            THEN { encode(Dyadic(lat), Dyadic(lon), precision) :
                     lat \in Values(float_range(bbox.min_lat + interior_lat_step,
                                                bbox.max_lat - interior_lat_step,
                                                interior_lat_step)),
                     lon \in Values(float_range(bbox.min_lon + interior_lon_step,
                                                bbox.max_lon - interior_lon_step,
                                                interior_lon_step)) }
            ELSE {}
    IN  top_bottom \cup left_right \cup interior

-----------------------------------------------------------------------------
(* neighbor *)

lowercase == << "a", "b", "c", "d", "e", "f", "g", "h", "i", "j", "k", "l", "m",
                "n", "o", "p", "q", "r", "s", "t", "u", "v", "w", "x", "y", "z" >>
uppercase == << "A", "B", "C", "D", "E", "F", "G", "H", "I", "J", "K", "L", "M",
                "N", "O", "P", "Q", "R", "S", "T", "U", "V", "W", "X", "Y", "Z" >>

\* The first (1-based) position of c in the string str, 0 when it has none.
Find(str, c) ==
    IF \E i \in 1..Len(str) : str[i] = c
    THEN CHOOSE i \in 1..Len(str) : str[i] = c /\ \A j \in 1..(i - 1) : str[j] # c
    ELSE 0

\* Mutant of lower: the string is used as it was spelled.
lower_as_spelled(str) == str

\* str.lower()
lower(str) ==
    [ i \in 1..Len(str) |->
        IF Find(uppercase, str[i]) # 0 THEN lowercase[Find(uppercase, str[i])] ELSE str[i] ]

\* Mutant of NEIGHBORS: the first two characters of top/even are exchanged.
NEIGHBORS_transposed ==
    [ right |->
        [ even |-> << "b", "c", "0", "1", "f", "g", "4", "5", "2", "3", "8",
                      "9", "6", "7", "d", "e", "u", "v", "h", "j", "y", "z",
                      "n", "p", "k", "m", "s", "t", "q", "r", "w", "x" >>,
          odd |-> << "p", "0", "r", "2", "1", "4", "3", "6", "x", "8", "z",
                     "b", "9", "d", "c", "f", "5", "h", "7", "k", "j", "n",
                     "m", "q", "e", "s", "g", "u", "t", "w", "v", "y" >> ],
      left |->
        [ even |-> << "2", "3", "8", "9", "6", "7", "d", "e", "b", "c", "0",
                      "1", "f", "g", "4", "5", "k", "m", "s", "t", "q", "r",
                      "w", "x", "u", "v", "h", "j", "y", "z", "n", "p" >>,
          odd |-> << "1", "4", "3", "6", "5", "h", "7", "k", "9", "d", "c",
                     "f", "e", "s", "g", "u", "j", "n", "m", "q", "p", "0",
                     "r", "2", "t", "w", "v", "y", "x", "8", "z", "b" >> ],
      top |->
        [ even |-> << "0", "p", "r", "2", "1", "4", "3", "6", "x", "8", "z",
                      "b", "9", "d", "c", "f", "5", "h", "7", "k", "j", "n",
                      "m", "q", "e", "s", "g", "u", "t", "w", "v", "y" >>,
          odd |-> << "b", "c", "0", "1", "f", "g", "4", "5", "2", "3", "8",
                     "9", "6", "7", "d", "e", "u", "v", "h", "j", "y", "z",
                     "n", "p", "k", "m", "s", "t", "q", "r", "w", "x" >> ],
      bottom |->
        [ even |-> << "1", "4", "3", "6", "5", "h", "7", "k", "9", "d", "c",
                      "f", "e", "s", "g", "u", "j", "n", "m", "q", "p", "0",
                      "r", "2", "t", "w", "v", "y", "x", "8", "z", "b" >>,
          odd |-> << "2", "3", "8", "9", "6", "7", "d", "e", "b", "c", "0",
                     "1", "f", "g", "4", "5", "k", "m", "s", "t", "q", "r",
                     "w", "x", "u", "v", "h", "j", "y", "z", "n", "p" >> ] ]

\* Configuration, from geohash.js
NEIGHBORS ==
    [ right |->
        [ even |-> << "b", "c", "0", "1", "f", "g", "4", "5", "2", "3", "8",
                      "9", "6", "7", "d", "e", "u", "v", "h", "j", "y", "z",
                      "n", "p", "k", "m", "s", "t", "q", "r", "w", "x" >>,
          odd |-> << "p", "0", "r", "2", "1", "4", "3", "6", "x", "8", "z",
                     "b", "9", "d", "c", "f", "5", "h", "7", "k", "j", "n",
                     "m", "q", "e", "s", "g", "u", "t", "w", "v", "y" >> ],
      left |->
        [ even |-> << "2", "3", "8", "9", "6", "7", "d", "e", "b", "c", "0",
                      "1", "f", "g", "4", "5", "k", "m", "s", "t", "q", "r",
                      "w", "x", "u", "v", "h", "j", "y", "z", "n", "p" >>,
          odd |-> << "1", "4", "3", "6", "5", "h", "7", "k", "9", "d", "c",
                     "f", "e", "s", "g", "u", "j", "n", "m", "q", "p", "0",
                     "r", "2", "t", "w", "v", "y", "x", "8", "z", "b" >> ],
      top |->
        [ even |-> << "p", "0", "r", "2", "1", "4", "3", "6", "x", "8", "z",
                      "b", "9", "d", "c", "f", "5", "h", "7", "k", "j", "n",
                      "m", "q", "e", "s", "g", "u", "t", "w", "v", "y" >>,
          odd |-> << "b", "c", "0", "1", "f", "g", "4", "5", "2", "3", "8",
                     "9", "6", "7", "d", "e", "u", "v", "h", "j", "y", "z",
                     "n", "p", "k", "m", "s", "t", "q", "r", "w", "x" >> ],
      bottom |->
        [ even |-> << "1", "4", "3", "6", "5", "h", "7", "k", "9", "d", "c",
                      "f", "e", "s", "g", "u", "j", "n", "m", "q", "p", "0",
                      "r", "2", "t", "w", "v", "y", "x", "8", "z", "b" >>,
          odd |-> << "2", "3", "8", "9", "6", "7", "d", "e", "b", "c", "0",
                     "1", "f", "g", "4", "5", "k", "m", "s", "t", "q", "r",
                     "w", "x", "u", "v", "h", "j", "y", "z", "n", "p" >> ] ]

\* Mutant of BORDERS: top/even has lost its last character.
BORDERS_short ==
    [ right |->
        [ even |-> << "b", "c", "f", "g", "u", "v", "y", "z" >>,
          odd |-> << "p", "r", "x", "z" >> ],
      left |->
        [ even |-> << "0", "1", "4", "5", "h", "j", "n", "p" >>,
          odd |-> << "0", "2", "8", "b" >> ],
      top |->
        [ even |-> << "p", "r", "x" >>,
          odd |-> << "b", "c", "f", "g", "u", "v", "y", "z" >> ],
      bottom |->
        [ even |-> << "0", "2", "8", "b" >>,
          odd |-> << "0", "1", "4", "5", "h", "j", "n", "p" >> ] ]

\* Used change of parent tile
BORDERS ==
    [ right |->
        [ even |-> << "b", "c", "f", "g", "u", "v", "y", "z" >>,
          odd |-> << "p", "r", "x", "z" >> ],
      left |->
        [ even |-> << "0", "1", "4", "5", "h", "j", "n", "p" >>,
          odd |-> << "0", "2", "8", "b" >> ],
      top |->
        [ even |-> << "p", "r", "x", "z" >>,
          odd |-> << "b", "c", "f", "g", "u", "v", "y", "z" >> ],
      bottom |->
        [ even |-> << "0", "2", "8", "b" >>,
          odd |-> << "0", "1", "4", "5", "h", "j", "n", "p" >> ] ]

\* A value a call returns, where a call can also raise.
Return(v) == [value |-> v]

\* The two ValueErrors of get_adjacent: its own, and that of str.index.
EmptyGeohash == "ValueError: The geohash length cannot be 0. Possible when close to poles"
SubstringNotFound == "ValueError: substring not found"

\* Mutant of get_adjacent: the even tables serve the odd lengths and the odd
\* tables the even lengths.
RECURSIVE get_adjacent_parity_swapped(_, _)
get_adjacent_parity_swapped(geohash, direction) ==
    IF Len(geohash) = 0 THEN Raise(EmptyGeohash)
    ELSE
    LET source_hash == lower(geohash)
        last_char == source_hash[Len(source_hash)]
        split_direction == IF Len(source_hash) % 2 = 0 THEN "odd" ELSE "even"
        base == IF Find(BORDERS[direction][split_direction], last_char) # 0
                THEN get_adjacent_parity_swapped(
                         SubSeq(source_hash, 1, Len(source_hash) - 1), direction)
                ELSE Return(SubSeq(source_hash, 1, Len(source_hash) - 1))
        neighbor_str == NEIGHBORS[direction][split_direction]
        idx == Find(neighbor_str, last_char) - 1
    IN  IF Raised(base) THEN base
        ELSE IF idx < 0 THEN Raise(SubstringNotFound)
        ELSE Return(Append(base.value, base32[idx + 1]))

\* Mutant of get_adjacent: a last character on the border leaves the
\* characters before it as they are.
RECURSIVE get_adjacent_without_carry(_, _)
get_adjacent_without_carry(geohash, direction) ==
    IF Len(geohash) = 0 THEN Raise(EmptyGeohash)
    ELSE
    LET source_hash == lower(geohash)
        last_char == source_hash[Len(source_hash)]
        split_direction == IF Len(source_hash) % 2 = 0 THEN "even" ELSE "odd"
        base == Return(SubSeq(source_hash, 1, Len(source_hash) - 1))
        neighbor_str == NEIGHBORS[direction][split_direction]
        idx == Find(neighbor_str, last_char) - 1
    IN  IF idx < 0 THEN Raise(SubstringNotFound)
        ELSE Return(Append(base.value, base32[idx + 1]))

RECURSIVE get_adjacent(_, _)
get_adjacent(geohash, direction) ==
    IF Len(geohash) = 0 THEN Raise(EmptyGeohash)
    ELSE
    LET source_hash == lower(geohash)
        last_char == source_hash[Len(source_hash)]
        split_direction == IF Len(source_hash) % 2 = 0 THEN "even" ELSE "odd"
        base == IF Find(BORDERS[direction][split_direction], last_char) # 0
                THEN get_adjacent(SubSeq(source_hash, 1, Len(source_hash) - 1), direction)
                ELSE Return(SubSeq(source_hash, 1, Len(source_hash) - 1))
        neighbor_str == NEIGHBORS[direction][split_direction]
        idx == Find(neighbor_str, last_char) - 1
    IN  IF Raised(base) THEN base
        ELSE IF idx < 0 THEN Raise(SubstringNotFound)
        ELSE Return(Append(base.value, base32[idx + 1]))

\* The module-level objects the functions read, as the modules define them.
ModuleTables ==
    [ base32 |-> base32, decodemap |-> decodemap,
      NEIGHBORS |-> NEIGHBORS, BORDERS |-> BORDERS ]

-----------------------------------------------------------------------------
(* The script of tests/test_geohash_accuracy.py::test_roundtrip_consistency,  *)
(* with the exact decode and the containment test added after the encode.     *)

\* Tenths of a degree of the decimal sample of an axis of half-range `limit`.
SampleTenths(limit, step) ==
    { t \in (-10 * limit)..(10 * limit) : (t + 10 * limit) % step = 0 } \cup {10 * limit}

\* The dyadic sample: the ends, the centre and equally spaced points between.
SampleDyadic(limit) ==
    { Dyadic(i * (Deg(limit) \div DyadicSteps)) : i \in (-DyadicSteps)..DyadicSteps }

\* The coordinates of tests/test_geohash.py::test_encode, in tenths.
TestLatTenths == {426, 0}
TestLonTenths == {-56}

Latitudes ==
    SampleDyadic(90) \cup { Tenths(t) : t \in SampleTenths(90, LatStepTenths) \cup TestLatTenths }
Longitudes ==
    SampleDyadic(180) \cup { Tenths(t) : t \in SampleTenths(180, LonStepTenths) \cup TestLonTenths }

Init ==
    /\ pc = "start"
    /\ args \in [latitude : Latitudes, longitude : Longitudes, precision : 1..MaxPrecision]
    /\ gh = None /\ exact = None /\ box = None /\ inside = None
    /\ decoded = None /\ reencoded = None /\ redecoded = None
    /\ longer = None /\ adjacent = None /\ back = None
    /\ returned = << >>
    /\ tables = ModuleTables /\ threads = << >>

\* geohash = pgh.encode(lat, lon, precision)
Encode ==
    /\ pc = "start"
    /\ gh' = encode(args.latitude, args.longitude, args.precision)
    /\ pc' = "encoded"
    /\ UNCHANGED <<tables, threads, returned, args, exact, box, inside, decoded, reencoded, redecoded, longer, adjacent, back>>

DecodeExactly ==
    /\ pc = "encoded"
    /\ exact' = decode_exactly(gh)
    /\ pc' = "exact"
    /\ UNCHANGED <<tables, threads, returned, args, gh, box, inside, decoded, reencoded, redecoded, longer, adjacent, back>>

IsPointInGeohash ==
    /\ pc = "exact"
    /\ box' = get_bounding_box(gh)
    /\ inside' = is_point_in_geohash(args.latitude, args.longitude, gh)
    /\ pc' = "boxed"
    /\ UNCHANGED <<tables, threads, returned, args, gh, exact, decoded, reencoded, redecoded, longer, adjacent, back>>

\* decoded = pgh.decode(geohash)
Decode ==
    /\ pc = "boxed"
    /\ decoded' = decode(gh)
    /\ pc' = "decoded"
    /\ UNCHANGED <<tables, threads, returned, args, gh, exact, box, inside, reencoded, redecoded, longer, adjacent, back>>

\* reencoded = pgh.encode(decoded.latitude, decoded.longitude, precision)
ReEncode ==
    /\ pc = "decoded"
    /\ reencoded' = encode(float(decoded.latitude), float(decoded.longitude), args.precision)
    /\ pc' = "reencoded"
    /\ UNCHANGED <<tables, threads, returned, args, gh, exact, box, inside, decoded, redecoded, longer, adjacent, back>>

\* redecoded = pgh.decode(reencoded)
ReDecode ==
    /\ pc = "reencoded"
    /\ redecoded' = decode(reencoded)
    /\ pc' = "redecoded"
    /\ UNCHANGED <<tables, threads, returned, args, gh, exact, box, inside, decoded, reencoded, longer, adjacent, back>>

Next == Encode \/ DecodeExactly \/ IsPointInGeohash \/ Decode \/ ReEncode \/ ReDecode

Spec == Init /\ [][Next]_vars

-----------------------------------------------------------------------------
(* A script that starts from a geohash: it decodes it exactly, then either    *)
(* encodes the decoded centre again, or decodes the geohash made one          *)
(* character longer, or steps to a neighbour and from there to a neighbour    *)
(* of the neighbour (tests/test_neighbor.py).                                 *)

\* All strings of 1..n characters over the set chars.
Strings(chars, n) == UNION { [1..k -> chars] : k \in 1..n }

\* The alphabet with the upper-case spelling of its letters.
SpelledAlphabet ==
    Alphabet \cup { uppercase[Find(lowercase, c)] : c \in { a \in Alphabet : Find(lowercase, a) # 0 } }

\* The geohashes of tests/test_neighbor.py.
TestGeohashes ==
    { << "g", "b", "s", "u", "v" >>, << "u", "0", "0", "0", "0", "0" >>,
      << "k", "d", "3", "y", "b", "y", "u" >>,
      << "k", "0", "0", "0", "0", "0", "0", "0" >>,
      << "g", "z", "z", "z", "z", "z" >>, << "5", "b", "p", "b", "p", "b", "h" >> }

\* Mixed-case spellings of geohashes of tests/test_neighbor.py.
MixedCaseGeohashes ==
    { << "G", "b", "S", "u", "V" >>, << "U", "0", "0", "0", "0", "0" >>,
      << "g", "Z", "z", "Z", "z", "Z" >>, << "5", "B", "p", "B", "p", "b", "H" >>,
      << "e", "Z" >>, << "E", "z" >>, << "E", "Z" >> }

Geohashes == Strings(Alphabet, MaxLen) \cup Strings(SpelledAlphabet, MaxSpelledLen)
                \cup TestGeohashes \cup MixedCaseGeohashes

Directions == {"right", "left", "top", "bottom"}

\* A geohash in the sense of the data model: a string over the alphabet.
IsValid(geohash) == \A i \in 1..Len(geohash) : geohash[i] \in Alphabet

InitGeohash ==
    /\ pc = "given"
    /\ gh \in Geohashes
    /\ args = None /\ exact = None /\ box = None /\ inside = None
    /\ decoded = None /\ reencoded = None /\ redecoded = None
    /\ longer = None /\ adjacent = None /\ back = None
    /\ returned = << >>
    /\ tables = ModuleTables /\ threads = << >>

\* decode_exactly(geohash)
DecodeGiven ==
    /\ pc = "given"
    /\ exact' = decode_exactly(gh)
    /\ pc' = "decoded_exactly"
    /\ UNCHANGED <<tables, threads, returned, args, gh, box, inside, decoded, reencoded, redecoded,
                   longer, adjacent, back>>

\* encode(lat, lon, len(geohash)) of the centre decode_exactly returned
EncodeCentre ==
    /\ pc = "decoded_exactly"
    /\ ~Raised(exact)
    /\ reencoded' = encode(Dyadic(exact.latitude), Dyadic(exact.longitude), Len(gh))
    /\ pc' = "centre_encoded"
    /\ UNCHANGED <<tables, threads, returned, args, gh, exact, box, inside, decoded, redecoded,
                   longer, adjacent, back>>

\* decode_exactly(geohash + c)
DecodeLonger(c) ==
    /\ pc = "decoded_exactly"
    /\ ~Raised(exact)
    /\ Len(gh) < MaxLen
    /\ longer' = [geohash |-> Append(gh, c), exact |-> decode_exactly(Append(gh, c))]
    /\ pc' = "longer_decoded"
    /\ UNCHANGED <<tables, threads, returned, args, gh, exact, box, inside, decoded, reencoded, redecoded,
                   adjacent, back>>

\* get_adjacent(geohash, direction), and decode_exactly of what it returns
GetAdjacent(direction) ==
    /\ pc = "decoded_exactly"
    /\ LET result == get_adjacent(gh, direction)
       IN  adjacent' = [ direction |-> direction, result |-> result,
                         exact |-> IF Raised(result) THEN result
                                   ELSE decode_exactly(result.value) ]
    /\ pc' = "stepped"
    /\ UNCHANGED <<tables, threads, returned, args, gh, exact, box, inside, decoded, reencoded, redecoded,
                   longer, back>>

\* get_adjacent(get_adjacent(geohash, d1), d2)
GetAdjacentOfAdjacent(direction) ==
    /\ pc = "stepped"
    /\ ~Raised(adjacent.result)
    /\ back' = [ direction |-> direction,
                 result |-> get_adjacent(adjacent.result.value, direction) ]
    /\ pc' = "stepped_twice"
    /\ UNCHANGED <<tables, threads, returned, args, gh, exact, box, inside, decoded, reencoded, redecoded,
                   longer, adjacent>>

NextGeohash ==
    \/ DecodeGiven
    \/ EncodeCentre
    \/ \E c \in Alphabet : DecodeLonger(c)
    \/ \E direction \in Directions : GetAdjacent(direction)
    \/ \E direction \in Directions : GetAdjacentOfAdjacent(direction)

SpecGeohash == InitGeohash /\ [][NextGeohash]_vars

-----------------------------------------------------------------------------
(* Claims about encode and the round trip, checked under Spec *)

\* The coordinates of tests/test_geohash.py::test_encode and its result.
TestPoint == [latitude |-> Tenths(426), longitude |-> Tenths(-56)]
ezs42 == << "e", "z", "s", "4", "2" >>

\* C1: for every latitude in [-90,90], longitude in [-180,180] and precision p,
\* encode returns a string of exactly p characters, each one of the 32 symbols
\* of the alphabet.
C1_EncodeLengthAndAlphabet ==
    pc # "start" =>
        /\ Len(gh) = args.precision
        /\ \A i \in 1..Len(gh) : gh[i] \in Alphabet
        /\ Cardinality(Alphabet) = 32

C1_Witness ==
    /\ pc = "encoded"
    /\ args.precision = MaxPrecision
    /\ Len(gh) = MaxPrecision

\* The decisions the reference bisection takes on one axis: the k-th is 1
\* exactly when value lies in the upper half of the interval the k-1 decisions
\* before it have left of [lo, hi].
RECURSIVE RefAxisBits(_, _, _, _)
RefAxisBits(value, lo, hi, n) ==
    IF n = 0 THEN << >>
    ELSE LET mid == (lo + hi) \div 2
         IN  IF GE(value, mid) THEN << 1 >> \o RefAxisBits(value, mid, hi, n - 1)
                               ELSE << 0 >> \o RefAxisBits(value, lo, mid, n - 1)

\* The t-th bit of the reference result (t = 1, 2, ...): odd t are the
\* longitude decisions, even t the latitude decisions.
RefBit(latitude, longitude, t) ==
    IF t % 2 = 1
    THEN RefAxisBits(longitude, -Deg(180), Deg(180), (t + 1) \div 2)[(t + 1) \div 2]
    ELSE RefAxisBits(latitude, -Deg(90), Deg(90), t \div 2)[t \div 2]

\* The value of the j-th symbol of the reference result, most significant bit first.
RefSymbol(latitude, longitude, j) ==
      16 * RefBit(latitude, longitude, 5 * j - 4)
    + 8 * RefBit(latitude, longitude, 5 * j - 3)
    + 4 * RefBit(latitude, longitude, 5 * j - 2)
    + 2 * RefBit(latitude, longitude, 5 * j - 1)
    + RefBit(latitude, longitude, 5 * j)

\* C2: encode(latitude, longitude, p) is the reference bisection result,
\* symbol by symbol, the bits alternating longitude and latitude decisions
\* starting with longitude and packed most significant bit first; and
\* encode(42.6, -5.6, 5) = "ezs42".
C2_EncodeIsReferenceBisection ==
    pc # "start" =>
        /\ Len(gh) = args.precision
        /\ \A j \in 1..Len(gh) :
              gh[j] = base32[RefSymbol(args.latitude, args.longitude, j) + 1]
        /\ (args.latitude = TestPoint.latitude /\ args.longitude = TestPoint.longitude
              /\ args.precision = 5) => gh = ezs42

C2_Witness ==
    /\ pc = "encoded"
    /\ args.latitude = TestPoint.latitude /\ args.longitude = TestPoint.longitude
    /\ args.precision = 5
    /\ gh = ezs42

\* C4: the point lies inside the cell of its own geohash: its distance from
\* the decoded centre is at most the error on each axis, is_point_in_geohash
\* answers True, and the bounding box of the cell has min < max and stays
\* within [-90,90] x [-180,180].
C4_PointInOwnCell ==
    pc \in {"boxed", "decoded", "reencoded", "redecoded"} =>
        /\ GE(args.latitude, exact.latitude - exact.latitude_error)
        /\ LE(args.latitude, exact.latitude + exact.latitude_error)
        /\ GE(args.longitude, exact.longitude - exact.longitude_error)
        /\ LE(args.longitude, exact.longitude + exact.longitude_error)
        /\ inside = TRUE
        /\ box.min_lat < box.max_lat /\ box.min_lon < box.max_lon
        /\ -Deg(90) <= box.min_lat /\ box.max_lat <= Deg(90)
        /\ -Deg(180) <= box.min_lon /\ box.max_lon <= Deg(180)

\* A point on the north-east corner of the world, tested against its cell.
C4_Witness ==
    /\ pc = "boxed"
    /\ args.latitude = Dyadic(Deg(90)) /\ args.longitude = Dyadic(Deg(180))
    /\ args.precision = MaxPrecision
    /\ inside = TRUE
    /\ box.max_lat = Deg(90) /\ box.max_lon = Deg(180)

\* The absolute tolerance 1e-10 of test_roundtrip_consistency, as 10^-TolDigits.
TolDigits == 10

\* |a - b| < 10^-TolDigits for two decimal numbers a.m/10^a.digits, b.m/10^b.digits.
CloseDecimals(a, b) ==
    LET digits == IF a.digits > b.digits THEN a.digits ELSE b.digits
        diff == Abs(a.m * Pow(10, digits - a.digits) - b.m * Pow(10, digits - b.digits))
    IN  \/ diff = 0
        \/ digits > TolDigits /\ diff < Pow(10, digits - TolDigits)

\* C5: round-trip stability: with d1 = decode(encode(lat, lon, p)) and
\* d2 = decode(encode(d1.latitude, d1.longitude, p)), d1 and d2 differ by less
\* than 1e-10 on each axis (the re-encoded string need not be the first one).
C5_RoundTripStable ==
    pc = "redecoded" =>
        /\ CloseDecimals(decoded.latitude, redecoded.latitude)
        /\ CloseDecimals(decoded.longitude, redecoded.longitude)

\* A round trip whose re-encoded string is not the first one.
C5_Witness ==
    /\ pc = "redecoded"
    /\ reencoded # gh
    /\ decoded = redecoded

-----------------------------------------------------------------------------
(* Claims about decode_exactly and get_adjacent, checked under SpecGeohash *)

k0000000 == << "k", "0", "0", "0", "0", "0", "0", "0" >>
gzzzzz == << "g", "z", "z", "z", "z", "z" >>
bpbpbh == << "5", "b", "p", "b", "p", "b", "h" >>

\* C3: encode and decode_exactly are mutually inverse on cell centres: for a
\* geohash g with (lat, lon, _, _) = decode_exactly(g), encode(lat, lon, len(g))
\* is g.
C3_EncodeInvertsDecodeExactly ==
    pc = "centre_encoded" => reencoded = gh

C3_Witness ==
    /\ pc = "centre_encoded"
    /\ gh = k0000000
    /\ reencoded = gh

\* C6: for a geohash of n >= 1 symbols decode_exactly returns
\* latitude_error = 90/2^floor(5n/2) and longitude_error = 180/2^ceil(5n/2),
\* both positive, whatever the symbols are.
C6_ErrorsByLength ==
    (pc # "given" /\ IsValid(gh)) =>
        /\ exact.latitude_error * Pow(2, (5 * Len(gh)) \div 2) = Deg(90)
        /\ exact.longitude_error * Pow(2, (5 * Len(gh) + 1) \div 2) = Deg(180)
        /\ exact.latitude_error > 0 /\ exact.longitude_error > 0

C6_Witness ==
    /\ pc = "decoded_exactly"
    /\ gh = bpbpbh
    /\ exact.latitude_error * Pow(2, 17) = Deg(90)
    /\ exact.longitude_error * Pow(2, 18) = Deg(180)

\* C7: error monotonicity: for a valid geohash g and an alphabet symbol c,
\* both error margins of decode_exactly(g + c) are strictly smaller than
\* those of decode_exactly(g).
C7_ErrorsStrictlyDecrease ==
    pc = "longer_decoded" =>
        /\ ~Raised(longer.exact)
        /\ longer.exact.latitude_error < exact.latitude_error
        /\ longer.exact.longitude_error < exact.longitude_error

C7_Witness ==
    /\ pc = "longer_decoded"
    /\ gh = << "u" >> /\ longer.geohash = << "u", "4" >>
    /\ longer.exact.latitude_error < exact.latitude_error

\* The state after get_adjacent(get_adjacent(gh, "top"), "bottom").
TopThenBottom ==
    /\ pc = "stepped_twice"
    /\ adjacent.direction = "top"
    /\ back.direction = "bottom"

\* C8 as stated: for any geohash g accepted by get_adjacent for which
\* get_adjacent(g, "top") does not raise,
\* get_adjacent(get_adjacent(g, "top"), "bottom") = g.
C8_Original ==
    TopThenBottom => back.result = Return(gh)

\* C8: adjacency symmetry, amended: for any string g accepted by get_adjacent
\* for which get_adjacent(g, "top") does not raise,
\* get_adjacent(get_adjacent(g, "top"), "bottom") is g in lower case (and so
\* is g itself when g is written in lower case).
C8_TopThenBottomIsLowerCase ==
    TopThenBottom => back.result = Return(lower(gh))

\* A geohash spelled in upper case that comes back in lower case.
C8_Witness ==
    /\ TopThenBottom
    /\ gh # lower(gh)
    /\ back.result = Return(lower(gh))

\* The cell of gh touches the latitude +90 / -90.
TouchesNorth == exact.latitude + exact.latitude_error = Deg(90)
TouchesSouth == exact.latitude - exact.latitude_error = -Deg(90)

\* C9: boundary failure: get_adjacent(g, "top") raises the empty-geohash
\* ValueError for every geohash whose cell touches latitude +90 (as "gzzzzz"),
\* and get_adjacent(g, "bottom") for every geohash whose cell touches latitude
\* -90 (as "5bpbpbh"); the error leaves every level of the recursion and no
\* string is returned.
C9_PolarBoundaryRaises ==
    (pc = "stepped" /\ IsValid(gh)) =>
        /\ (adjacent.direction = "top" /\ (TouchesNorth \/ gh = gzzzzz))
              => adjacent.result = Raise(EmptyGeohash)
        /\ (adjacent.direction = "bottom" /\ (TouchesSouth \/ gh = bpbpbh))
              => adjacent.result = Raise(EmptyGeohash)

C9_Witness ==
    /\ pc = "stepped"
    /\ gh = gzzzzz
    /\ TouchesNorth
    /\ adjacent.direction = "top"
    /\ adjacent.result = Raise(EmptyGeohash)

\* The centre of gh moved by one cell in the direction d.
MovedCentre(d) ==
    [ latitude |-> CASE d = "top" -> exact.latitude + 2 * exact.latitude_error
                     [] d = "bottom" -> exact.latitude - 2 * exact.latitude_error
                     [] OTHER -> exact.latitude,
      longitude |-> CASE d = "right" -> exact.longitude + 2 * exact.longitude_error
                      [] d = "left" -> exact.longitude - 2 * exact.longitude_error
                      [] OTHER -> exact.longitude ]

\* C10: get_adjacent returns the geographically adjacent cell: when
\* get_adjacent(g, d) does not raise for a valid geohash g, decode_exactly of
\* the result has the error margins of g, and its centre is the centre of g
\* moved by one cell in the direction d, the other coordinate unchanged.
C10_AdjacentIsNextCell ==
    (pc = "stepped" /\ IsValid(gh) /\ ~Raised(adjacent.result)) =>
        /\ ~Raised(adjacent.exact)
        /\ adjacent.exact.latitude_error = exact.latitude_error
        /\ adjacent.exact.longitude_error = exact.longitude_error
        /\ adjacent.exact.latitude = MovedCentre(adjacent.direction).latitude
        /\ adjacent.exact.longitude = MovedCentre(adjacent.direction).longitude

\* A step that carries into the parent cells: get_adjacent("k0000000", "left").
C10_Witness ==
    /\ pc = "stepped"
    /\ gh = k0000000
    /\ adjacent.direction = "left"
    /\ adjacent.result = Return(<< "7", "b", "p", "b", "p", "b", "p", "b" >>)
    /\ adjacent.exact.longitude = exact.longitude - 2 * exact.longitude_error

\* The string G with each upper-case letter replaced by its lower-case letter.
InLowerCase(G) ==
    [ i \in 1..Len(G) |->
        IF \E k \in 1..Len(uppercase) : uppercase[k] = G[i]
        THEN lowercase[CHOOSE k \in 1..Len(uppercase) : uppercase[k] = G[i]]
        ELSE G[i] ]

\* C16: get_adjacent is case-insensitive: for every spelling G of a valid
\* geohash g and every direction d, get_adjacent(G, d) ends as
\* get_adjacent(g, d) does: with the same lower-case result or the same error.
C16_GetAdjacentIgnoresCase ==
    (pc = "stepped" /\ IsValid(InLowerCase(gh))) =>
        adjacent.result = get_adjacent(InLowerCase(gh), adjacent.direction)

\* get_adjacent('GbSuV', 'top') has returned what get_adjacent('gbsuv', 'top')
\* returns, a lower-case geohash.
C16_Witness ==
    /\ pc = "stepped"
    /\ gh = << "G", "b", "S", "u", "V" >>
    /\ adjacent.direction = "top"
    /\ adjacent.result = get_adjacent(<< "g", "b", "s", "u", "v" >>, "top")
    /\ ~Raised(adjacent.result)
    /\ IsValid(adjacent.result.value)

-----------------------------------------------------------------------------
(* A script that calls the encoders on arguments of any kind: coordinates     *)
(* inside and outside the world, and precisions that are no geohash length    *)
(* (tests/test_geohash.py::test_encode_invalid_precision_type and the tests   *)
(* after it).                                                                 *)

\* A Python number passed as precision: the rational num / den.
Number(n) == [num |-> n, den |-> 1]
Halves(h) == [num |-> h, den |-> 2]
IsInteger(x) == x.num % x.den = 0

\* The largest geohash length of the data model (GeohashPrecision).
GeohashPrecisionMax == 12
\* "an integer in the range 1..12"
IsGeohashPrecision(x) ==
    IsInteger(x) /\ x.num \div x.den >= 1 /\ x.num \div x.den <= GeohashPrecisionMax

\* len(geohash) < precision, for a number precision: the least length at
\* which the test fails is the ceiling of precision.
LoopCount(precision) == -((-precision.num) \div precision.den)

\* Coordinates outside the world, in tenths of a degree.
OutsideLatTenths == {-901, 901, 1234}
OutsideLonTenths == {-1801, 1801, 2700}

CallLatitudes ==
    SampleDyadic(90) \cup { Tenths(t) : t \in TestLatTenths \cup OutsideLatTenths }
CallLongitudes ==
    SampleDyadic(180) \cup { Tenths(t) : t \in TestLonTenths \cup OutsideLonTenths }
\* The integers -1 .. MaxPrecision, and the halves between them.
CallPrecisions ==
    { Number(n) : n \in (-1)..MaxPrecision } \cup { Halves(2 * n + 1) : n \in 0..MaxPrecision - 1 }

\* -90 <= float(value) <= 90
is_valid_latitude(latitude) == GE(latitude, -Deg(90)) /\ LE(latitude, Deg(90))
\* -180 <= float(value) <= 180
is_valid_longitude(longitude) == GE(longitude, -Deg(180)) /\ LE(longitude, Deg(180))

InitEncodeCalls ==
    /\ pc = "call"
    /\ args \in [latitude : CallLatitudes, longitude : CallLongitudes,
                 precision : CallPrecisions]
    /\ gh = None /\ exact = None /\ box = None /\ inside = None
    /\ decoded = None /\ reencoded = None /\ redecoded = None
    /\ longer = None /\ adjacent = None /\ back = None
    /\ returned = << >>
    /\ tables = ModuleTables /\ threads = << >>

\* pgh.encode(latitude, longitude, precision)
CallEncode ==
    /\ pc = "call"
    /\ returned' = returned @@
         ("encode" :> Return(encode(args.latitude, args.longitude,
                                    LoopCount(args.precision))))
    /\ pc' = "encode_called"
    /\ UNCHANGED <<tables, threads, args, gh, exact, box, inside, decoded, reencoded, redecoded,
                   longer, adjacent, back>>

\* pgh.encode_strictly(latitude, longitude, precision)
CallEncodeStrictly ==
    /\ pc = "encode_called"
    /\ returned' = returned @@
         ("encode_strictly" :> Return(encode_strictly(args.latitude, args.longitude,
                                                      LoopCount(args.precision))))
    /\ pc' = "encode_strictly_called"
    /\ UNCHANGED <<tables, threads, args, gh, exact, box, inside, decoded, reencoded, redecoded,
                   longer, adjacent, back>>

\* The second element of the arrays passed to nb_vector_encode
\* (tests/test_nbgeohash.py::TestNumbaVectorGeohash), and the equator point.
SecondPoints ==
    { [latitude |-> Decimal(26732, 4), longitude |-> Decimal(-921736, 4)],
      [latitude |-> Dyadic(0), longitude |-> Dyadic(0)] }

\* pgh.nb_point_encode(latitude, longitude, precision), whose precision is
\* typed int8 and sizes an array
CallNbPointEncode ==
    /\ pc = "encode_strictly_called"
    /\ IsInteger(args.precision) /\ args.precision.num >= 0
    /\ returned' = returned @@
         ("nb_point_encode" :> Return(nb_point_encode(args.latitude, args.longitude,
                                                      args.precision.num)))
    /\ pc' = "nb_point_encode_called"
    /\ UNCHANGED <<tables, threads, args, gh, exact, box, inside, decoded, reencoded, redecoded,
                   longer, adjacent, back>>

\* pgh.nb_vector_encode(np.array([latitude, second.latitude]),
\*                      np.array([longitude, second.longitude]), precision)
CallNbVectorEncode(second) ==
    /\ pc = "nb_point_encode_called"
    /\ LET latitudes == << args.latitude, second.latitude >>
           longitudes == << args.longitude, second.longitude >>
       IN  returned' = returned @@
             ("nb_vector_encode" :>
                [ latitudes |-> latitudes, longitudes |-> longitudes,
                  value |-> nb_vector_encode(latitudes, longitudes, args.precision.num) ])
    /\ pc' = "nb_vector_encode_called"
    /\ UNCHANGED <<tables, threads, args, gh, exact, box, inside, decoded, reencoded, redecoded,
                   longer, adjacent, back>>

NextEncodeCalls ==
    \/ CallEncode
    \/ CallEncodeStrictly
    \/ CallNbPointEncode
    \/ \E second \in SecondPoints : CallNbVectorEncode(second)

SpecEncodeCalls == InitEncodeCalls /\ [][NextEncodeCalls]_vars

-----------------------------------------------------------------------------
(* Claims about the arguments of the encoders, checked under SpecEncodeCalls *)

\* C11: encode and encode_strictly raise, before any bisection step and
\* without returning a string, whenever precision is not an integer in 1..12.
C11_InvalidPrecisionRaises ==
    (pc = "encode_strictly_called" /\ ~IsGeohashPrecision(args.precision)) =>
        Raised(returned["encode"]) /\ Raised(returned["encode_strictly"])

\* C12: encode raises, and returns no geohash, whenever latitude is outside
\* [-90, 90] or longitude is outside [-180, 180] (stated for the calls whose
\* precision is a geohash length, so that the precision is not the cause).
C12_OutOfRangeRaises ==
    (pc = "encode_called" /\ IsGeohashPrecision(args.precision)
       /\ ~(is_valid_latitude(args.latitude) /\ is_valid_longitude(args.longitude))) =>
        Raised(returned["encode"])

ebh00 == << "e", "b", "h", "0", "0" >>

C17_NumbaEncodeIsEncode ==
    (pc = "nb_vector_encode_called" /\ IsGeohashPrecision(args.precision)
       /\ is_valid_latitude(args.latitude) /\ is_valid_longitude(args.longitude)) =>
        /\ returned["nb_point_encode"] = returned["encode"]
        /\ LET v == returned["nb_vector_encode"]
           IN  \A i \in 1..Len(v.value) :
                   v.value[i] = encode(v.latitudes[i], v.longitudes[i], args.precision.num)

-----------------------------------------------------------------------------
(* A script that calls the decoders on strings of any kind: the empty string  *)
(* and strings with characters outside the alphabet                           *)
(* (tests/test_geohash.py::test_decode_empty and the tests after it).         *)

\* Characters outside the alphabet: the four excluded letters, upper-case
\* letters and punctuation.
OtherCharacters == {"a", "i", "l", "o", "A", "E", "!"}

\* The strings of test_decode_invalid_chars.
TestInvalidGeohashes ==
    { << "e", "z", "s", "4", "2", "a" >>, << "e", "z", "s", "!", "2" >> }

\* The empty string, and every string of at most MaxLen characters over the
\* alphabet and the other characters.
CallGeohashes ==
    { << >> } \cup Strings(Alphabet \cup OtherCharacters, MaxLen) \cup TestInvalidGeohashes

InitDecodeCalls ==
    /\ pc = "call"
    /\ gh \in CallGeohashes
    /\ args = None /\ exact = None /\ box = None /\ inside = None
    /\ decoded = None /\ reencoded = None /\ redecoded = None
    /\ longer = None /\ adjacent = None /\ back = None
    /\ returned = << >>
    /\ tables = ModuleTables /\ threads = << >>

\* pgh.decode_exactly(geohash)
CallDecodeExactly ==
    /\ pc = "call"
    /\ returned' = returned @@ ("decode_exactly" :> decode_exactly(gh))
    /\ pc' = "decode_exactly_called"
    /\ UNCHANGED <<tables, threads, args, gh, exact, box, inside, decoded, reencoded, redecoded,
                   longer, adjacent, back>>

\* pgh.decode(geohash)
CallDecode ==
    /\ pc = "decode_exactly_called"
    /\ returned' = returned @@ ("decode" :> decode(gh))
    /\ pc' = "decode_called"
    /\ UNCHANGED <<tables, threads, args, gh, exact, box, inside, decoded, reencoded, redecoded,
                   longer, adjacent, back>>

NextDecodeCalls == CallDecodeExactly \/ CallDecode

SpecDecodeCalls == InitDecodeCalls /\ [][NextDecodeCalls]_vars

-----------------------------------------------------------------------------
(* Claims about the arguments of the decoders, checked under SpecDecodeCalls *)

\* The errors the tests of the decoders expect.
GeohashEmpty == "ValueError: Geohash cannot be empty"
InvalidCharacter == "ValueError: Invalid character in geohash"
\* The exceptions that are instances of ValueError (KeyError is a LookupError).
ValueErrors == {GeohashEmpty, InvalidCharacter, EmptyGeohash, SubstringNotFound}

\* C13: decode('') and decode_exactly('') raise the empty-geohash ValueError;
\* neither returns a coordinate for the empty string.
C13_EmptyGeohashRaises ==
    (pc = "decode_called" /\ gh = << >>) =>
        /\ returned["decode_exactly"] = Raise(GeohashEmpty)
        /\ returned["decode"] = Raise(GeohashEmpty)

\* C14: decode and decode_exactly fail with the invalid-character ValueError,
\* and yield no coordinate, for every string that has a character outside the
\* alphabet, wherever it occurs.
C14_InvalidCharacterRaisesValueError ==
    (pc = "decode_called" /\ ~IsValid(gh)) =>
        /\ Raised(returned["decode_exactly"])
        /\ returned["decode_exactly"].raised \in ValueErrors
        /\ Raised(returned["decode"])
        /\ returned["decode"].raised \in ValueErrors

-----------------------------------------------------------------------------
(* Concurrent calls.  Each thread makes one call of encode, decode_exactly,  *)
(* decode or get_adjacent; a step of a thread is one pass of the call's loop *)
(* (one invocation or one return of get_adjacent's recursion).  The locals   *)
(* of a call belong to its thread; the module-level objects are read from    *)
(* the shared variable tables at the step that uses them.                    *)

\* Number of threads.
NumThreads == 2
Threads == 1..NumThreads

\* The calls a thread may make.
ThreadCalls ==
    { [fn |-> "encode", latitude |-> Tenths(426), longitude |-> Tenths(-56), precision |-> 2],
      [fn |-> "encode", latitude |-> Dyadic(0), longitude |-> Dyadic(0), precision |-> 1] }
    \cup { [fn |-> "decode_exactly", geohash |-> g] : g \in { << "e", "z" >>, << "e", "a" >> } }
    \cup { [fn |-> "decode", geohash |-> g] : g \in { << "e", "z" >>, << "A" >> } }
    \cup { [fn |-> "get_adjacent", geohash |-> << "e", "z" >>, direction |-> "right"],
           [fn |-> "get_adjacent", geohash |-> << "E", "z" >>, direction |-> "top"],
           [fn |-> "get_adjacent", geohash |-> << "z", "z" >>, direction |-> "top"] }

\* Mutant of decodemap_get: __decodemap.setdefault(c, 0), which stores a
\* missing key in the shared map.
decodemap_setdefault(map, c) ==
    IF c \in DOMAIN map THEN [map |-> map, found |-> TRUE, cd |-> map[c]]
    ELSE [map |-> map @@ (c :> 0), found |-> TRUE, cd |-> 0]

\* cd = __decodemap[c]: the map after the lookup, whether the key was found,
\* and the value.
decodemap_get(map, c) ==
    IF c \in DOMAIN map THEN [map |-> map, found |-> TRUE, cd |-> map[c]]
    ELSE [map |-> map, found |-> FALSE, cd |-> 0]

\* The call run alone, start to end.
Alone(call) ==
    CASE call.fn = "encode" ->
           Return(encode(call.latitude, call.longitude, call.precision))
      [] call.fn = "decode_exactly" -> decode_exactly(call.geohash)
      [] call.fn = "decode" -> decode(call.geohash)
      [] call.fn = "get_adjacent" -> get_adjacent(call.geohash, call.direction)

InitThreads ==
    /\ pc = "threads"
    /\ threads \in [Threads -> { [call |-> c, phase |-> "ready"] : c \in ThreadCalls }]
    /\ tables = ModuleTables
    /\ args = None /\ gh = None /\ exact = None /\ box = None /\ inside = None
    /\ decoded = None /\ reencoded = None /\ redecoded = None
    /\ longer = None /\ adjacent = None /\ back = None
    /\ returned = << >>

Running(t, fns) == threads[t].phase = "running" /\ threads[t].call.fn \in fns

Finish(t, outcome) ==
    threads' = [threads EXCEPT ![t] = [call |-> threads[t].call, phase |-> "done",
                                       outcome |-> outcome]]
Continue(t, locals) ==
    threads' = [threads EXCEPT ![t] = [call |-> threads[t].call, phase |-> "running",
                                       locals |-> locals]]

\* The call is entered: its locals are set up.
ThreadEnter(t) ==
    /\ threads[t].phase = "ready"
    /\ LET call == threads[t].call
       IN  Continue(t, CASE call.fn = "encode" -> encode_init
                         [] call.fn \in {"decode_exactly", "decode"} ->
                              [i |-> 1, s |-> decode_init]
                         [] call.fn = "get_adjacent" ->
                              [frames |-> << >>, calling |-> TRUE,
                               geohash |-> call.geohash, base |-> << >>])
    /\ UNCHANGED <<pc, args, gh, exact, box, inside, decoded, reencoded, redecoded,
                   longer, adjacent, back, returned, tables>>

\* encode: the loop test and one pass of the loop, or the return.
ThreadEncode(t) ==
    /\ Running(t, {"encode"})
    /\ LET call == threads[t].call
           s == threads[t].locals
       IN  IF Len(s.geohash) < call.precision
           THEN Continue(t, encode_pass(tables.base32, call.latitude, call.longitude, s))
           ELSE Finish(t, Return(s.geohash))
    /\ UNCHANGED <<pc, args, gh, exact, box, inside, decoded, reencoded, redecoded,
                   longer, adjacent, back, returned, tables>>

\* decode_exactly (also as called by decode): one character of the geohash,
\* or the return.
ThreadDecode(t) ==
    /\ Running(t, {"decode_exactly", "decode"})
    /\ LET call == threads[t].call
           l == threads[t].locals
           got == decodemap_get(tables.decodemap, call.geohash[l.i])
       IN  IF l.i > Len(call.geohash)
           THEN /\ Finish(t, IF call.fn = "decode" THEN decode_format(decode_exactly_return(l.s))
                             ELSE decode_exactly_return(l.s))
                /\ tables' = tables
           ELSE /\ tables' = [tables EXCEPT !.decodemap = got.map]
                /\ IF got.found
                   THEN Continue(t, [i |-> l.i + 1, s |-> decode_masks(got.cd, 1, l.s)])
                   ELSE Finish(t, Raise(KeyError))
    /\ UNCHANGED <<pc, args, gh, exact, box, inside, decoded, reencoded, redecoded,
                   longer, adjacent, back, returned>>

\* Mutant of all_but_last: the whole string.
all_with_last(source_hash) == source_hash

\* source_hash[:-1]
all_but_last(source_hash) == SubSeq(source_hash, 1, Len(source_hash) - 1)

\* get_adjacent: one invocation up to its recursive call, or the part of an
\* invocation after base is known.
ThreadGetAdjacent(t) ==
    /\ Running(t, {"get_adjacent"})
    /\ LET direction == threads[t].call.direction
           l == threads[t].locals
       IN  IF l.calling
           THEN IF Len(l.geohash) = 0 THEN Finish(t, Raise(EmptyGeohash))
                ELSE LET source_hash == lower(l.geohash)
                         last_char == source_hash[Len(source_hash)]
                         base == all_but_last(source_hash)
                         split_direction == IF Len(source_hash) % 2 = 0 THEN "even" ELSE "odd"
                         border == Find(tables.BORDERS[direction][split_direction],
                                        last_char) # 0
                     IN  Continue(t, [frames |-> Append(l.frames, source_hash),
                                      calling |-> border, geohash |-> base, base |-> base])
           ELSE LET source_hash == l.frames[Len(l.frames)]
                    last_char == source_hash[Len(source_hash)]
                    split_direction == IF Len(source_hash) % 2 = 0 THEN "even" ELSE "odd"
                    idx == Find(tables.NEIGHBORS[direction][split_direction], last_char) - 1
                    result == Append(l.base, tables.base32[idx + 1])
                IN  IF idx < 0 THEN Finish(t, Raise(SubstringNotFound))
                    ELSE IF Len(l.frames) = 1 THEN Finish(t, Return(result))
                    ELSE Continue(t, [frames |-> SubSeq(l.frames, 1, Len(l.frames) - 1),
                                      calling |-> FALSE, geohash |-> l.geohash,
                                      base |-> result])
    /\ UNCHANGED <<pc, args, gh, exact, box, inside, decoded, reencoded, redecoded,
                   longer, adjacent, back, returned, tables>>

NextThreads ==
    \E t \in Threads :
        \/ ThreadEnter(t)
        \/ ThreadEncode(t)
        \/ ThreadDecode(t)
        \/ ThreadGetAdjacent(t)

SpecThreads == InitThreads /\ [][NextThreads]_vars

-----------------------------------------------------------------------------
(* Claims about concurrent calls, checked under SpecThreads *)

\* C18: no call writes the module-level alphabet, decode map, NEIGHBORS or
\* BORDERS, and under every interleaving each call ends as it ends when run
\* alone on the same arguments.
C18_NoSharedMutableState ==
    /\ tables = ModuleTables
    /\ \A t \in Threads :
           threads[t].phase = "done" => threads[t].outcome = Alone(threads[t].call)

\* Thread 1 has finished a decode while thread 2 is inside get_adjacent's
\* recursion, each with the outcome or the locals of its own call.
C18_Witness ==
    /\ pc = "threads"
    /\ threads[1].phase = "done" /\ threads[1].call.fn = "decode"
    /\ threads[1].outcome = decode(<< "e", "z" >>)
    /\ threads[2].phase = "running" /\ threads[2].call.fn = "get_adjacent"
    /\ Len(threads[2].locals.frames) = 2

-----------------------------------------------------------------------------
(* A script that asks for the geohashes in a bounding box                     *)
(* (tests/test_bounding_box.py::test_geohashes_in_box).  The corners of the   *)
(* box lie on the quarters of the cells of the precision asked for, so every  *)
(* sampled coordinate is dyadic and the float arithmetic is exact.            *)

\* The precisions asked for are 2, 4, ... 2 * MaxHalfPrecision.
MaxHalfPrecision == 1
\* The corners of a box are 0 .. BoxQuarters quarter-cells from the origin.
BoxQuarters == 8

BoxPrecisions == { 2 * k : k \in 1..MaxHalfPrecision }

\* BoundingBox(min_lat, min_lon, max_lat, max_lon) with corners on the
\* quarter-cell grid of the precision.
Boxes(precision) ==
    { [ min_lat |-> a * (lat_step(precision) \div 4), min_lon |-> c * (lon_step(precision) \div 4),
        max_lat |-> b * (lat_step(precision) \div 4), max_lon |-> d * (lon_step(precision) \div 4) ] :
      a \in 0..BoxQuarters, b \in 0..BoxQuarters, c \in 0..BoxQuarters, d \in 0..BoxQuarters }

InitBox ==
    /\ pc = "box_given"
    /\ \E precision \in BoxPrecisions :
         \E bbox \in { b \in Boxes(precision) : b.min_lat < b.max_lat /\ b.min_lon < b.max_lon } :
             args = [bbox |-> bbox, precision |-> precision]
    /\ gh = None /\ exact = None /\ box = None /\ inside = None
    /\ decoded = None /\ reencoded = None /\ redecoded = None
    /\ longer = None /\ adjacent = None /\ back = None
    /\ returned = << >>
    /\ tables = ModuleTables /\ threads = << >>

\* geohashes_in_box(bbox, precision)
GeohashesInBox ==
    /\ pc = "box_given"
    /\ returned' = returned @@
         ("geohashes_in_box" :> geohashes_in_box(args.bbox, args.precision))
    /\ pc' = "box_searched"
    /\ UNCHANGED <<args, gh, exact, box, inside, decoded, reencoded, redecoded,
                   longer, adjacent, back, tables, threads>>

NextBox == GeohashesInBox

SpecBox == InitBox /\ [][NextBox]_vars

-----------------------------------------------------------------------------
(* Claims about geohashes_in_box, checked under SpecBox *)

\* The points of the box on the quarter-cell grid, its corners among them.
BoxPoints(bbox, precision) ==
    { << lat, lon >> :
        lat \in Values(float_range(bbox.min_lat, bbox.max_lat, lat_step(precision) \div 4)),
        lon \in Values(float_range(bbox.min_lon, bbox.max_lon, lon_step(precision) \div 4)) }

\* The cells of the precision that hold a point of the box.
CellsOfBox(bbox, precision) ==
    { encode(Dyadic(pt[1]), Dyadic(pt[2]), precision) : pt \in BoxPoints(bbox, precision) }

\* C19: geohashes_in_box returns the geohashes of the precision whose cell
\* intersects the box: every returned geohash has the length precision and
\* intersects the box, and none is missing, the cell of the
\* (max_lat, max_lon) corner included.
C19_GeohashesInBoxAreTheIntersecting ==
    pc = "box_searched" =>
        LET found == returned["geohashes_in_box"]
        IN  /\ \A g \in found :
                  /\ Len(g) = args.precision
                  /\ do_boxes_intersect(get_bounding_box(g), args.bbox)
            /\ encode(Dyadic(args.bbox.max_lat), Dyadic(args.bbox.max_lon),
                      args.precision) \in found
            /\ CellsOfBox(args.bbox, args.precision) \subseteq found

\* What the code does give: geohashes of the right length that intersect.
GeohashesInBoxIntersect ==
    pc = "box_searched" =>
        \A g \in returned["geohashes_in_box"] :
            /\ Len(g) = args.precision
            /\ do_boxes_intersect(get_bounding_box(g), args.bbox)
            /\ g \in CellsOfBox(args.bbox, args.precision)

-----------------------------------------------------------------------------
(* stats: the cardinal extremes *)

\* a < b on the floats decode returns, each the decimal m / 10^digits.
FloatLess(a, b) == a.m * Pow(10, b.digits) < b.m * Pow(10, a.digits)

\* __latitude(coordinate) and __longitude(coordinate)
latitude_of(coordinate) == coordinate.latitude
longitude_of(coordinate) == coordinate.longitude

\* max(coordinates, key=...) if reverse else min(coordinates, key=...), over
\* the coordinates from the i-th on: the first extreme one is kept.
RECURSIVE extreme_from(_, _, _, _, _)
extreme_from(coordinates, key_func, reverse, i, best) ==
    IF i > Len(coordinates) THEN best
    ELSE LET k == IF key_func = "latitude" THEN latitude_of(coordinates[i])
                                            ELSE longitude_of(coordinates[i])
             kb == IF key_func = "latitude" THEN latitude_of(best)
                                             ELSE longitude_of(best)
             better == IF reverse THEN FloatLess(kb, k) ELSE FloatLess(k, kb)
         IN  extreme_from(coordinates, key_func, reverse, i + 1,
                          IF better THEN coordinates[i] ELSE best)

\* _max_cardinal(geohashes, key_func, reverse), for a list of valid geohashes.
max_cardinal(geohashes, key_func, reverse) ==
    IF geohashes = << >> THEN << >>
    ELSE LET coordinates == [ i \in 1..Len(geohashes) |-> decode(geohashes[i]) ]
             coordinate == extreme_from(coordinates, key_func, reverse, 2, coordinates[1])
         IN  encode(float(coordinate.latitude), float(coordinate.longitude),
                    DefaultPrecision)

northern(geohashes) == max_cardinal(geohashes, "latitude", TRUE)
southern(geohashes) == max_cardinal(geohashes, "latitude", FALSE)
eastern(geohashes) == max_cardinal(geohashes, "longitude", TRUE)
western(geohashes) == max_cardinal(geohashes, "longitude", FALSE)

-----------------------------------------------------------------------------
(* A script that asks for a cardinal extreme of a collection of geohashes    *)
(* (tests/test_geohash.py::test_stats and the examples of the docstrings).   *)

\* A collection has at most MaxCollection geohashes.
MaxCollection == 2
\* Every geohash of at most MaxMemberLen characters can be a member.
MaxMemberLen == 1

\* The collection of the docstring examples of northern .. western.
DocCollection ==
    << << "u", "4", "p", "r", "u", "y", "d" >>, << "u", "4", "p", "r", "u", "y", "f" >>,
       << "u", "4", "p", "r", "u", "y", "c" >> >>

Members == Strings(Alphabet, MaxMemberLen) \cup Values(DocCollection)

Collections == UNION { [1..k -> Members] : k \in 0..MaxCollection } \cup {DocCollection}

InitStats ==
    /\ pc = "collection_given"
    /\ \E geohashes \in Collections : args = [geohashes |-> geohashes]
    /\ gh = None /\ exact = None /\ box = None /\ inside = None
    /\ decoded = None /\ reencoded = None /\ redecoded = None
    /\ longer = None /\ adjacent = None /\ back = None
    /\ returned = << >>
    /\ tables = ModuleTables /\ threads = << >>

\* northern(geohashes)
Northern ==
    /\ pc = "collection_given"
    /\ returned' = returned @@ ("northern" :> northern(args.geohashes))
    /\ pc' = "northern_returned"
    /\ UNCHANGED <<args, gh, exact, box, inside, decoded, reencoded, redecoded,
                   longer, adjacent, back, tables, threads>>

\* southern(geohashes)
Southern ==
    /\ pc = "collection_given"
    /\ returned' = returned @@ ("southern" :> southern(args.geohashes))
    /\ pc' = "southern_returned"
    /\ UNCHANGED <<args, gh, exact, box, inside, decoded, reencoded, redecoded,
                   longer, adjacent, back, tables, threads>>

\* eastern(geohashes)
Eastern ==
    /\ pc = "collection_given"
    /\ returned' = returned @@ ("eastern" :> eastern(args.geohashes))
    /\ pc' = "eastern_returned"
    /\ UNCHANGED <<args, gh, exact, box, inside, decoded, reencoded, redecoded,
                   longer, adjacent, back, tables, threads>>

\* western(geohashes)
Western ==
    /\ pc = "collection_given"
    /\ returned' = returned @@ ("western" :> western(args.geohashes))
    /\ pc' = "western_returned"
    /\ UNCHANGED <<args, gh, exact, box, inside, decoded, reencoded, redecoded,
                   longer, adjacent, back, tables, threads>>

NextStats == Northern \/ Southern \/ Eastern \/ Western

SpecStats == InitStats /\ [][NextStats]_vars

-----------------------------------------------------------------------------
(* Claims about the cardinal extremes, checked under SpecStats *)

\* The call the script has made, if any.
CardinalCalled == IF DOMAIN returned = {} THEN None ELSE CHOOSE f \in DOMAIN returned : TRUE

\* result lies at least as far in the direction of f as the member x.
AtLeastAsFar(f, result, x) ==
    CASE f = "northern" -> ~FloatLess(decode(result).latitude, decode(x).latitude)
      [] f = "southern" -> ~FloatLess(decode(x).latitude, decode(result).latitude)
      [] f = "eastern"  -> ~FloatLess(decode(result).longitude, decode(x).longitude)
      [] f = "western"  -> ~FloatLess(decode(x).longitude, decode(result).longitude)

\* C20: northern, southern, eastern and western return '' for an empty
\* collection and otherwise a member of the collection whose latitude is
\* maximal, latitude minimal, longitude maximal, longitude minimal among the
\* members.
C20_CardinalIsExtremeMember ==
    pc # "collection_given" =>
        LET result == returned[CardinalCalled]
        IN  IF args.geohashes = << >> THEN result = << >>
            ELSE /\ result \in Values(args.geohashes)
                 /\ \A x \in Values(args.geohashes) : AtLeastAsFar(CardinalCalled, result, x)

\* The part of it the code keeps: '' for an empty collection, and otherwise
\* the geohash of DefaultPrecision characters of the extreme decoded member.
CardinalOfEmptyIsEmpty ==
    pc # "collection_given" =>
        LET result == returned[CardinalCalled]
        IN  IF args.geohashes = << >> THEN result = << >>
            ELSE Len(result) = DefaultPrecision

-----------------------------------------------------------------------------
(* distances: geohash_approximate_distance *)

\* _PRECISION, in hundredths of a metre (3.71 m is 371).
PRECISION ==
    [ m \in 0..10 |->
        CASE m = 0 -> 2000000000 [] m = 1 -> 500353000 [] m = 2 -> 62544100
          [] m = 3 -> 12326400 [] m = 4 -> 1954500 [] m = 5 -> 380300
          [] m = 6 -> 61000 [] m = 7 -> 11800 [] m = 8 -> 1900
          [] m = 9 -> 371 [] m = 10 -> 60 ]

\* The two ValueErrors of check_validity (the message also quotes the geohash).
InvalidGeohash1 == "ValueError: Geohash 1 is not a valid geohash"
InvalidGeohash2 == "ValueError: Geohash 2 is not a valid geohash"

\* len([x for x in geohash if x in __base32]) != len(geohash)
not_all_in_base32(geohash) ==
    Cardinality({ i \in 1..Len(geohash) : geohash[i] \in Values(base32) }) # Len(geohash)

\* geohash[:length]
Cut(geohash, length) == SubSeq(geohash, 1, IF length < Len(geohash) THEN length ELSE Len(geohash))

\* Mutant of matching_from: the loop goes on after the first mismatch.
RECURSIVE matching_without_break(_, _, _, _)
matching_without_break(geohash_1, geohash_2, i, matching) ==
    IF i > Len(geohash_1) \/ i > Len(geohash_2) THEN matching
    ELSE matching_without_break(geohash_1, geohash_2, i + 1,
                                IF geohash_1[i] = geohash_2[i] THEN matching + 1 ELSE matching)

\* for g1, g2 in zip(geohash_1, geohash_2): if g1 == g2: matching += 1 else: break
RECURSIVE matching_from(_, _, _, _)
matching_from(geohash_1, geohash_2, i, matching) ==
    IF i > Len(geohash_1) \/ i > Len(geohash_2) THEN matching
    ELSE IF geohash_1[i] = geohash_2[i]
         THEN matching_from(geohash_1, geohash_2, i + 1, matching + 1)
         ELSE matching

geohash_approximate_distance(geohash_1, geohash_2, check_validity) ==
    IF check_validity /\ not_all_in_base32(geohash_1) THEN Raise(InvalidGeohash1)
    ELSE IF check_validity /\ not_all_in_base32(geohash_2) THEN Raise(InvalidGeohash2)
    ELSE LET len_1 == Len(geohash_1)
             len_2 == Len(geohash_2)
             cut_1 == IF len_1 > len_2 THEN Cut(geohash_1, len_2) ELSE geohash_1
             cut_2 == IF len_2 > len_1 THEN Cut(geohash_2, len_1) ELSE geohash_2
             matching == matching_from(cut_1, cut_2, 1, 0)
         IN  Return(PRECISION[IF matching < 10 THEN matching ELSE 10])

-----------------------------------------------------------------------------
(* A script that asks for the approximate distance of two strings, and then  *)
(* for that of the same two in the other order                               *)
(* (tests/test_geohash.py::test_geohash_approximate_distance_all_cases).     *)

\* The two strings share up to MaxShared leading characters of SharedBase,
\* each followed by at most MaxOwnLen characters of its own.
MaxShared == 12
MaxOwnLen == 2

\* A string of valid characters to take shared beginnings from.
SharedBase ==
    << "0", "1", "2", "3", "4", "5", "6", "7", "8", "9", "b", "c", "d", "e", "f", "g" >>

\* Characters the two strings go on with: two of the alphabet, one outside it.
OwnCharacters == {"1", "2", "a"}

OwnEnds == {<< >>} \cup Strings(OwnCharacters, MaxOwnLen)

\* The pairs of test_distance and test_check_validity.
TestPairs ==
    { << << "b", "c", "d", "3", "u" >>, << "b", "c", "8", "3", "n" >> >>,
      << << "b", "c", "d", "3", "u", "a", "s", "d" >>, << "b", "c", "d", "3", "n" >> >>,
      << << "b", "c", "d", "3", "u" >>, << "b", "c", "d", "3", "u", "a", "s", "d" >> >>,
      << << "s", "h", "i", "b", "u" >>, << "s", "h", "i", "b", "a" >> >> }

DistancePairs ==
    { << Cut(SharedBase, k) \o e1, Cut(SharedBase, k) \o e2 >> :
        k \in 0..MaxShared, e1 \in OwnEnds, e2 \in OwnEnds } \cup TestPairs

InitDistance ==
    /\ pc = "pair_given"
    /\ \E pair \in DistancePairs : \E check_validity \in BOOLEAN :
         args = [geohash_1 |-> pair[1], geohash_2 |-> pair[2],
                 check_validity |-> check_validity]
    /\ gh = None /\ exact = None /\ box = None /\ inside = None
    /\ decoded = None /\ reencoded = None /\ redecoded = None
    /\ longer = None /\ adjacent = None /\ back = None
    /\ returned = << >>
    /\ tables = ModuleTables /\ threads = << >>

\* geohash_approximate_distance(geohash_1, geohash_2, check_validity)
CallDistance ==
    /\ pc = "pair_given"
    /\ returned' = returned @@
         ("distance" :> geohash_approximate_distance(args.geohash_1, args.geohash_2,
                                                     args.check_validity))
    /\ pc' = "distance_returned"
    /\ UNCHANGED <<args, gh, exact, box, inside, decoded, reencoded, redecoded,
                   longer, adjacent, back, tables, threads>>

\* geohash_approximate_distance(geohash_2, geohash_1, check_validity)
CallDistanceSwapped ==
    /\ pc = "distance_returned"
    /\ returned' = returned @@
         ("swapped" :> geohash_approximate_distance(args.geohash_2, args.geohash_1,
                                                    args.check_validity))
    /\ pc' = "swapped_returned"
    /\ UNCHANGED <<args, gh, exact, box, inside, decoded, reencoded, redecoded,
                   longer, adjacent, back, tables, threads>>

NextDistance == CallDistance \/ CallDistanceSwapped

SpecDistance == InitDistance /\ [][NextDistance]_vars

-----------------------------------------------------------------------------
(* Claims about geohash_approximate_distance, checked under SpecDistance *)

\* The length of the longest common prefix of a and b.
CommonPrefixLen(a, b) ==
    CHOOSE m \in 0..Len(a) :
        /\ m <= Len(b)
        /\ SubSeq(a, 1, m) = SubSeq(b, 1, m)
        /\ \A n \in (m + 1)..Len(a) : n > Len(b) \/ SubSeq(a, 1, n) # SubSeq(b, 1, n)

\* What the claim gives for the call on (a, b): a ValueError where validity is
\* checked and a or b has a character outside the alphabet, and otherwise the
\* table entry of the common prefix length, capped at 10.
DistanceByPrefix(result, a, b) ==
    IF args.check_validity /\ ~(IsValid(a) /\ IsValid(b))
    THEN Raised(result) /\ result.raised \in {InvalidGeohash1, InvalidGeohash2}
    ELSE LET m == CommonPrefixLen(a, b)
         IN  result = Return(PRECISION[IF m < 10 THEN m ELSE 10])

-----------------------------------------------------------------------------
(* Claims about the single bisection steps, checked under Spec *)

\* The locals of encode before each of its first n passes and after the n-th.
RECURSIVE EncodePasses(_, _, _, _)
EncodePasses(latitude, longitude, s, n) ==
    IF n = 0 THEN << s >>
    ELSE << s >> \o EncodePasses(latitude, longitude, encode_body(latitude, longitude, s), n - 1)

\* The locals of decode_exactly before each of the first n bits of geohash and
\* after the n-th; k bits have been taken so far.
RECURSIVE DecodeBits(_, _, _, _)
DecodeBits(geohash, s, k, n) ==
    IF k = n THEN << s >>
    ELSE << s >> \o DecodeBits(geohash,
                               decode_bit(decodemap[geohash[(k \div 5) + 1]], bits[(k % 5) + 1], s),
                               k + 1, n)

\* The k-th bit (k = 1, 2, ...) of the geohash, most significant bit first.
BitOfGeohash(geohash, k) ==
    IF BitAnd(decodemap[geohash[((k - 1) \div 5) + 1]], bits[((k - 1) % 5) + 1]) # 0 THEN 1 ELSE 0

\* The bit the pass from s to t has recorded, in ch or in the symbol appended.
BitRecorded(s, t) ==
    IF s.bit < 4 THEN (IF BitAnd(t.ch, bits[s.bit + 1]) # 0 THEN 1 ELSE 0)
    ELSE decodemap[t.geohash[Len(t.geohash)]] % 2

\* The coordinate lies exactly on the grid value mid.
OnMidpoint(value, mid) == GE(value, mid) /\ LE(value, mid)

\* C22: at every bisection step of encode a coordinate equal to the midpoint
\* gets bit 1 and the upper half, on both axes, so encode(0.0, -5.6, 5) is
\* 'ebh00'; and decode_exactly mirrors encode: bit 1 selects the upper half,
\* bit 0 the lower, and its intervals are those encode had.
C22_TieGoesToUpperHalf ==
    pc = "encoded" =>
        LET n == 5 * args.precision
            e == EncodePasses(args.latitude, args.longitude, encode_init, n)
            d == DecodeBits(gh, decode_init, 0, n)
        IN  /\ \A k \in 1..n :
                  LET s == e[k]
                      t == e[k + 1]
                      axis == IF s.even THEN s.lon_interval ELSE s.lat_interval
                      value == IF s.even THEN args.longitude ELSE args.latitude
                      mid == Mid(axis[1], axis[2])
                  IN  OnMidpoint(value, mid) =>
                          /\ BitRecorded(s, t) = 1
                          /\ (IF s.even THEN t.lon_interval ELSE t.lat_interval)
                                = << mid, axis[2] >>
            /\ \A k \in 1..n :
                  LET s == d[k]
                      t == d[k + 1]
                      axis == IF s.is_even THEN s.lon_interval ELSE s.lat_interval
                      mid == Mid(axis[1], axis[2])
                  IN  /\ (IF s.is_even THEN t.lon_interval ELSE t.lat_interval)
                            = IF BitOfGeohash(gh, k) = 1 THEN << mid, axis[2] >>
                                                         ELSE << axis[1], mid >>
                      /\ t.lat_interval = e[k + 1].lat_interval
                      /\ t.lon_interval = e[k + 1].lon_interval
            /\ (args = [latitude |-> Tenths(0), longitude |-> Tenths(-56), precision |-> 5])
                  => gh = ebh00

\* encode(0.0, -5.6, 5) has returned 'ebh00': the latitude 0.0 lies on the
\* midpoint of the first latitude step.
C22_Witness ==
    /\ pc = "encoded"
    /\ args = [latitude |-> Tenths(0), longitude |-> Tenths(-56), precision |-> 5]
    /\ OnMidpoint(args.latitude, Mid(-Deg(90), Deg(90)))
    /\ gh = ebh00

-----------------------------------------------------------------------------
(* Claims about the locals of decode_exactly, checked under SpecGeohash *)

kd3ybyu == << "k", "d", "3", "y", "b", "y", "u" >>

\* d holds the locals of decode_exactly before the first bit and after every
\* bit: the error of each axis is half the width of the axis's interval (the
\* upper end less the error is the lower end plus the error), the intervals
\* lie inside the world, and e, the tuple returned, holds the midpoints of
\* the final intervals and the final errors.
HalfWidthThroughout(d, e) ==
    /\ \A s \in { d[k] : k \in 1..Len(d) } :
          /\ s.lat_interval[2] - s.lat_err = s.lat_interval[1] + s.lat_err
          /\ s.lon_interval[2] - s.lon_err = s.lon_interval[1] + s.lon_err
          /\ -Deg(90) <= s.lat_interval[1] /\ s.lat_interval[2] <= Deg(90)
          /\ -Deg(180) <= s.lon_interval[1] /\ s.lon_interval[2] <= Deg(180)
    /\ LET last == d[Len(d)]
       IN  /\ e.latitude - last.lat_interval[1] = last.lat_interval[2] - e.latitude
           /\ e.longitude - last.lon_interval[1] = last.lon_interval[2] - e.longitude
           /\ e.latitude_error = last.lat_err
           /\ e.longitude_error = last.lon_err

\* C23: throughout decode_exactly, before the first bit and after every bit,
\* the error of each axis is half the width of the axis's interval, the
\* intervals lie inside [-90, 90] and [-180, 180], and the latitude and
\* longitude returned are the midpoints of the final intervals (the errors
\* returned being the final errors).
C23_ErrorIsHalfWidth ==
    (pc = "decoded_exactly" /\ IsValid(gh)) =>
        HalfWidthThroughout(DecodeBits(gh, decode_init, 0, 5 * Len(gh)), exact)

\* decode_exactly('kd3ybyu') has returned, after 35 bits: 18 of them halved
\* the longitude error and 17 the latitude error.
C23_Witness ==
    /\ pc = "decoded_exactly"
    /\ gh = kd3ybyu
    /\ LET d == DecodeBits(gh, decode_init, 0, 35)
       IN  /\ d[36].lat_err * Pow(2, 17) = Deg(90)
           /\ d[36].lon_err * Pow(2, 18) = Deg(180)
           /\ exact.latitude - exact.latitude_error = d[36].lat_interval[1]

-----------------------------------------------------------------------------
(* Claims about the steps of get_adjacent, checked under SpecGeohash *)

u00000 == << "u", "0", "0", "0", "0", "0" >>
gbpbpb == << "g", "b", "p", "b", "p", "b" >>

\* "even" for a string of even length, "odd" for one of odd length.
ParityOf(g) == IF Len(g) % 2 = 0 THEN "even" ELSE "odd"

\* alphabet[NEIGHBORS[d][parity].index(last)], where last is in the table.
NewLast(d, parity, last) ==
    IF Find(NEIGHBORS[d][parity], last) = 0 THEN "?"
    ELSE base32[Find(NEIGHBORS[d][parity], last)]

\* The border carry of get_adjacent(g, d) = result, as C24 states it.
BorderCarry(g, d, result) ==
    LET last == g[Len(g)]
        before == SubSeq(g, 1, Len(g) - 1)
    IN  IF Find(BORDERS[d][ParityOf(g)], last) = 0
        THEN result = Return(Append(before, NewLast(d, ParityOf(g), last)))
        ELSE LET carried == get_adjacent(before, d)
             IN  IF Raised(carried) THEN Raised(result)
                 ELSE result = Return(Append(carried.value, NewLast(d, ParityOf(g), last)))

\* C24 as stated: for any non-empty string g given to get_adjacent, with the
\* parity of len(g): a last character outside BORDERS[d][parity] changes only
\* the last character, one inside it replaces the characters before it by
\* get_adjacent(g[:-1], d); the new last character is
\* alphabet[NEIGHBORS[d][parity].index(last)].
C24_Original ==
    pc = "stepped" => BorderCarry(gh, adjacent.direction, adjacent.result)

\* C24: the border carry, amended: the same of g written in lower case (the
\* result is in lower case whatever the spelling of g), so that
\* get_adjacent('u00000', 'left') is 'gbpbpb'.
C24_BorderCarryInLowerCase ==
    pc = "stepped" =>
        /\ BorderCarry(InLowerCase(gh), adjacent.direction, adjacent.result)
        /\ (gh = u00000 /\ adjacent.direction = "left") => adjacent.result = Return(gbpbpb)

\* get_adjacent('u00000', 'left') has carried through all of its characters
\* but the first and returned 'gbpbpb'.
C24_Witness ==
    /\ pc = "stepped"
    /\ gh = u00000 /\ adjacent.direction = "left"
    /\ Find(BORDERS["left"]["even"], "0") # 0
    /\ adjacent.result = Return(gbpbpb)

-----------------------------------------------------------------------------
(* One call of get_adjacent followed invocation by invocation: the thread of *)
(* the script of threads, alone, on any string.                              *)

\* Strings with characters outside the alphabet.
StringsOutsideAlphabet == Strings({"z", "0", "a", "!"}, MaxLen) \ Strings(Alphabet, MaxLen)

\* Characters of the alphabet of every kind BORDERS tells apart: the four
\* corners of a cell ("0", "b", "p", "z" are on two borders each, of either
\* parity) and characters on no border.
RecursionAlphabet == {"0", "b", "p", "z", "s", "e", "7", "k"}

RecursionStrings ==
    Strings(RecursionAlphabet, MaxLen) \cup TestGeohashes \cup MixedCaseGeohashes
        \cup {<< >>} \cup StringsOutsideAlphabet

InitRecursion ==
    /\ pc = "recursion"
    /\ \E g \in RecursionStrings : \E direction \in Directions :
         threads = << [ call |-> [fn |-> "get_adjacent", geohash |-> g,
                                  direction |-> direction],
                        phase |-> "ready" ] >>
    /\ tables = ModuleTables
    /\ args = None /\ gh = None /\ exact = None /\ box = None /\ inside = None
    /\ decoded = None /\ reencoded = None /\ redecoded = None
    /\ longer = None /\ adjacent = None /\ back = None
    /\ returned = << >>

NextRecursion == ThreadEnter(1) \/ ThreadGetAdjacent(1)

SpecRecursion == InitRecursion /\ [][NextRecursion]_vars

\* The interpreter goes on running the call.
SpecRecursionFair == SpecRecursion /\ WF_vars(NextRecursion)

-----------------------------------------------------------------------------
(* Claims about the recursion of get_adjacent, checked under SpecRecursionFair *)

\* The nested invocations: the k-th is on a string k - 1 characters shorter
\* than the input, so there are at most len(input) of them with a last
\* character, and one more on the empty string at most.
NestedOnShorter ==
    threads[1].phase = "running" =>
        LET l == threads[1].locals
            n == Len(threads[1].call.geohash)
        IN  /\ Len(l.frames) <= n
            /\ \A k \in 1..Len(l.frames) : Len(l.frames[k]) = n - k + 1
            /\ l.calling => Len(l.geohash) = n - Len(l.frames)

\* The call has ended.
Ended == threads[1].phase = "done"

\* The call has ended by returning a string or with the ValueError of the
\* empty string.
EndedAsStated ==
    Ended => \/ ~Raised(threads[1].outcome)
             \/ threads[1].outcome = Raise(EmptyGeohash)

\* The same, or with the ValueError of str.index where the string has a
\* character outside the alphabet.
EndedAsCoded ==
    Ended => \/ ~Raised(threads[1].outcome)
             \/ threads[1].outcome = Raise(EmptyGeohash)
             \/ /\ threads[1].outcome = Raise(SubstringNotFound)
                /\ ~IsValid(InLowerCase(threads[1].call.geohash))

\* C25 as stated: get_adjacent always terminates, every recursive call being
\* made on a string one character shorter, at most n nested calls for an
\* input of length n; it ends by returning a string or by raising the
\* 'geohash length cannot be 0' ValueError.
C25_Original == [](NestedOnShorter /\ EndedAsStated) /\ <>Ended

\* C25: termination, amended: the same, with a third ending: the ValueError
\* of str.index for a string with a character outside the alphabet.
C25_GetAdjacentTerminates == [](NestedOnShorter /\ EndedAsCoded) /\ <>Ended

\* The recursion at its deepest: as many nested invocations as the input has
\* characters, and the next one called on the empty string.
C25_Witness ==
    /\ pc = "recursion"
    /\ threads[1].phase = "running"
    /\ Len(threads[1].call.geohash) >= 2
    /\ Len(threads[1].locals.frames) = Len(threads[1].call.geohash)
    /\ threads[1].locals.calling /\ threads[1].locals.geohash = << >>

-----------------------------------------------------------------------------
(* Claims about the accuracy of decode, checked under Spec *)

\* The coordinate is one given in decimal degrees: m / 10^digits.
GivenInDecimal(value) == \E d \in 0..9 : value.den = 45 * Pow(5, d)

\* Its decimal, as the [m, digits] of decode's floats.
DecimalOf(value) ==
    [ m |-> value.num, digits |-> CHOOSE d \in 0..9 : value.den = 45 * Pow(5, d) ]

MaxOf(a, b) == IF a > b THEN a ELSE b
MinOf(a, b) == IF a < b THEN a ELSE b

\* The decimal a in units of 10^-K degrees (K >= a.digits).
InUnits(a, K) == a.m * Pow(10, K - a.digits)

\* Twice the safety factor of the test: 1.5 up to precision 8, 2.0 for 9 and
\* 10, 3.0 above.
TwiceSafetyFactor(p) == IF p > 10 THEN 6 ELSE IF p > 8 THEN 4 ELSE 3

\* diff / 10^K < safety_factor * 180 / 2^(2.5 * p - 1).  For an even p the
\* power is whole; for an odd p it is 2^((5p - 1) / 2) * sqrt(2), and with
\* r = n / d = diff * 2^((5p - 1) / 2) / (safety_factor * 360 * 10^K) the
\* test is r * sqrt(2) < 1, that is r < 1 / (2 * r).
WithinMargin(diff, K, p) ==
    IF p % 2 = 0
    THEN FracLess(diff, Pow(10, K), 180 * TwiceSafetyFactor(p), Pow(2, (5 * p) \div 2))
    ELSE LET h == (5 * p - 1) \div 2
             c == MinOf(h, K + 2)
             n == diff * Pow(2, h - c)
             d == 45 * TwiceSafetyFactor(p) * Pow(5, K) * Pow(2, K + 2 - c)
         IN  n = 0 \/ FracLess(n, d, d, 2 * n)

\* C26: d = decode(encode(lat, lon, p)) is within the margin of the test
\* suite of the point: |d.latitude - lat| and the least of
\* |d.longitude - lon|, |d.longitude - lon + 360|, |d.longitude - lon - 360|
\* are below s * 180 / 2^(2.5 p - 1), s being 1.5, 2.0 or 3.0 by precision.
C26_DecodeWithinTestMargin ==
    (pc \in {"decoded", "reencoded", "redecoded"}
       /\ GivenInDecimal(args.latitude) /\ GivenInDecimal(args.longitude)) =>
        LET lat == DecimalOf(args.latitude)
            lon == DecimalOf(args.longitude)
            Klat == MaxOf(lat.digits, decoded.latitude.digits)
            Klon == MaxOf(lon.digits, decoded.longitude.digits)
            lat_error == Abs(InUnits(decoded.latitude, Klat) - InUnits(lat, Klat))
            lon_off == InUnits(decoded.longitude, Klon) - InUnits(lon, Klon)
            lon_diff == MinOf(Abs(lon_off),
                              MinOf(Abs(lon_off + 360 * Pow(10, Klon)),
                                    Abs(lon_off - 360 * Pow(10, Klon))))
        IN  /\ WithinMargin(lat_error, Klat, args.precision)
            /\ WithinMargin(lon_diff, Klon, args.precision)

-----------------------------------------------------------------------------
(* A point encoded at a precision and again at a longer one, and the cell *)
(* of the geohash decoded next to the cell of one of its prefixes.         *)

InitPrefix ==
    /\ pc = "point_given"
    /\ args \in [latitude : Latitudes, longitude : Longitudes, precision : 1..MaxPrecision]
    /\ gh = None /\ exact = None /\ box = None /\ inside = None
    /\ decoded = None /\ reencoded = None /\ redecoded = None
    /\ longer = None /\ adjacent = None /\ back = None
    /\ returned = << >>
    /\ tables = ModuleTables /\ threads = << >>

\* encode(lat, lon, p)
EncodeShort ==
    /\ pc = "point_given"
    /\ gh' = encode(args.latitude, args.longitude, args.precision)
    /\ pc' = "short_encoded"
    /\ UNCHANGED <<tables, threads, returned, args, exact, box, inside, decoded, reencoded, redecoded,
                   longer, adjacent, back>>

\* encode(lat, lon, q), p <= q <= 12
EncodeLonger(q) ==
    /\ pc = "short_encoded"
    /\ args.precision <= q
    /\ longer' = [ precision |-> q,
                   geohash |-> encode(args.latitude, args.longitude, q) ]
    /\ pc' = "longer_encoded"
    /\ UNCHANGED <<tables, threads, returned, args, gh, exact, box, inside, decoded, reencoded, redecoded,
                   adjacent, back>>

\* decode_exactly(g) and decode_exactly(g[:k]), 1 <= k <= len(g)
DecodePrefix(k) ==
    /\ pc = "short_encoded"
    /\ k <= Len(gh)
    /\ exact' = decode_exactly(gh)
    /\ box' = [ prefix |-> SubSeq(gh, 1, k), exact |-> decode_exactly(SubSeq(gh, 1, k)) ]
    /\ pc' = "prefix_decoded"
    /\ UNCHANGED <<tables, threads, returned, args, gh, inside, decoded, reencoded, redecoded,
                   longer, adjacent, back>>

NextPrefix ==
    \/ EncodeShort
    \/ \E q \in 1..DefaultPrecision : EncodeLonger(q)
    \/ \E k \in 1..MaxPrecision : DecodePrefix(k)

SpecPrefix == InitPrefix /\ [][NextPrefix]_vars

-----------------------------------------------------------------------------
(* Claims about prefixes, checked under SpecPrefix *)

\* The cell decode_exactly gives: centre less and plus the error, per axis.
CellOf(e) ==
    [ south |-> e.latitude - e.latitude_error, north |-> e.latitude + e.latitude_error,
      west |-> e.longitude - e.longitude_error, east |-> e.longitude + e.longitude_error ]

CellWithin(inner, outer) ==
    /\ outer.south <= inner.south /\ inner.north <= outer.north
    /\ outer.west <= inner.west /\ inner.east <= outer.east

\* C27: encode(lat, lon, p) is the prefix of length p of encode(lat, lon, q)
\* for every q from p to 12, and the cell of a geohash lies within the cell
\* of each of its non-empty prefixes.
C27_PrefixNesting ==
    /\ pc = "longer_encoded" =>
          /\ Len(gh) = args.precision
          /\ Len(longer.geohash) = longer.precision
          /\ SubSeq(longer.geohash, 1, args.precision) = gh
    /\ pc = "prefix_decoded" =>
          CellWithin(CellOf(exact), CellOf(box.exact))

\* encode(42.6, -5.6, 5) == 'ezs42' is the start of the 12-character
\* encoding of the point.
C27_Witness ==
    /\ pc = "longer_encoded"
    /\ args = [latitude |-> Tenths(426), longitude |-> Tenths(-56), precision |-> 5]
    /\ gh = << "e", "z", "s", "4", "2" >>
    /\ longer.precision = DefaultPrecision
    /\ Len(longer.geohash) = DefaultPrecision
    /\ SubSeq(longer.geohash, 1, 5) = gh

-----------------------------------------------------------------------------
(* Claims about the edge of the world, checked under SpecGeohash *)

\* Every character of g is in BORDERS[d] of the parity of its position
\* (counted from 1, as the length of the prefix it ends).
AllOnBorder(g, d) ==
    \A i \in 1..Len(g) :
        Find(BORDERS[d][IF i % 2 = 0 THEN "even" ELSE "odd"], g[i]) # 0

\* The cell decode_exactly gave reaches the edge of the world in direction d.
TouchesEdge(e, d) ==
    CASE d = "top" -> e.latitude + e.latitude_error = Deg(90)
      [] d = "bottom" -> e.latitude - e.latitude_error = -Deg(90)
      [] d = "right" -> e.longitude + e.longitude_error = Deg(180)
      [] d = "left" -> e.longitude - e.longitude_error = -Deg(180)

\* C28: for a non-empty geohash g over the alphabet, get_adjacent(g, d) raises
\* exactly when every character of g is in BORDERS[d] of the parity of its
\* position, which is exactly when the cell of g touches the edge of the
\* world in direction d (left at -180 and right at +180 included); in every
\* other case it returns a geohash of the same length over the alphabet.
C28_RaisesExactlyAtTheEdge ==
    (pc = "stepped" /\ IsValid(gh) /\ Len(gh) > 0) =>
        /\ Raised(adjacent.result) <=> AllOnBorder(gh, adjacent.direction)
        /\ Raised(adjacent.result) <=> TouchesEdge(exact, adjacent.direction)
        /\ Raised(adjacent.result) => adjacent.result = Raise(EmptyGeohash)
        /\ ~Raised(adjacent.result) =>
              /\ Len(adjacent.result.value) = Len(gh)
              /\ IsValid(adjacent.result.value)

\* get_adjacent('gzzzzz', 'top') has raised: the cell reaches latitude 90.
\* It does not reach longitude 180.
C28_Witness ==
    /\ pc = "stepped"
    /\ gh = gzzzzz /\ adjacent.direction = "top"
    /\ Raised(adjacent.result)
    /\ TouchesEdge(exact, "top") /\ ~TouchesEdge(exact, "right")

-----------------------------------------------------------------------------
(* Claims about two steps in a row, checked under SpecGeohash *)

OppositeOf(d) ==
    CASE d = "right" -> "left" [] d = "left" -> "right"
      [] d = "top" -> "bottom" [] d = "bottom" -> "top"

\* C29: for a geohash g over the alphabet and each of the four directions d,
\* when get_adjacent(g, d) has returned, get_adjacent of what it returned in
\* the direction opposite to d returns g.
C29_OppositeStepsAreInverse ==
    (pc = "stepped_twice" /\ IsValid(gh) /\ back.direction = OppositeOf(adjacent.direction)) =>
        back.result = Return(gh)

\* get_adjacent('u00000', 'left') returned 'gbpbpb' across the border of the
\* first character, and get_adjacent('gbpbpb', 'right') has returned 'u00000'.
C29_Witness ==
    /\ pc = "stepped_twice"
    /\ gh = u00000
    /\ adjacent.direction = "left" /\ adjacent.result = Return(gbpbpb)
    /\ back.direction = "right" /\ back.result = Return(u00000)

Horizontal == {"left", "right"}
Vertical == {"top", "bottom"}

\* C30: for a geohash g over the alphabet, h in {left, right} and v in
\* {top, bottom}: if neither get_adjacent(g, h) nor get_adjacent(g, v) raises,
\* then get_adjacent(get_adjacent(g, h), v) and
\* get_adjacent(get_adjacent(g, v), h) both return, and return the same.
C30_StepsCommute ==
    (pc = "stepped_twice" /\ IsValid(gh)
       /\ adjacent.direction \in Horizontal /\ back.direction \in Vertical) =>
        LET vertical_first == get_adjacent(gh, back.direction)
        IN  ~Raised(vertical_first) =>
                /\ ~Raised(back.result)
                /\ get_adjacent(vertical_first.value, adjacent.direction) = back.result

\* From 'u00000', left and then top, and top and then left, both cross the
\* border of the first character and end in the same cell of 'g'.
C30_Witness ==
    /\ pc = "stepped_twice"
    /\ gh = u00000
    /\ adjacent.direction = "left" /\ adjacent.result = Return(gbpbpb)
    /\ back.direction = "top" /\ ~Raised(back.result)
    /\ back.result.value[1] = "g"
    /\ LET vertical_first == get_adjacent(gh, "top")
       IN  /\ ~Raised(vertical_first)
           /\ vertical_first.value[1] = "u"
           /\ get_adjacent(vertical_first.value, "left") = back.result

=============================================================================
